---- MODULE Spec2Model ----
(***************************************************************************)
(* Model of the rkp-favourites Stremio addon: the catalog service          *)
(* (src/src/services/catalogService.js), the process bootstrap             *)
(* (src/server.js, src/unnamed/part_003) and the queries served from the   *)
(* loaded catalog document.                                                *)
(*                                                                         *)
(* JavaScript values are tagged records: undefined, null, strings (a       *)
(* sequence of one-character strings, so that trimming, case folding and   *)
(* key concatenation are computed and not assumed), numbers and arrays.    *)
(* Node runs every handler to completion on one thread, so each operation  *)
(* of the service is one atomic action.                                    *)
(***************************************************************************)
EXTENDS Integers, Sequences, FiniteSets, TLC

VARIABLES
    catalogData,   \* CatalogService.catalogData: null or the parsed document
    catalogMap,    \* CatalogService.catalogMap: "type:name" -> catalog
    initialized,   \* CatalogService.initialized
    dataPath,      \* CatalogService.dataPath
    serverProc,    \* the server.js process: not started here, booting, serving or exited
    cachedAddonInterface,   \* api/index.js: null or the interface buildAddon returned
    cachedManifest,         \* api/index.js: null or the manifest getManifest generated
    initializationPromise,  \* api/index.js: null or the settled promise of the initialization
    requests,      \* api/index.js: the requests in flight, each at an await or answered
    builds,        \* history: the addon interfaces and manifests api/index.js has cached
    catalogFile,   \* the deployed catalog_data.json: its content and the change
                   \* notifications raised for it that nothing has handled yet
    isLocal,            \* start-with-tunnel.js: ENVIRONMENT is 'local'
    supervisorProc,     \* the start-with-tunnel.js process: not run here, running or exited
    checkServer,        \* start-with-tunnel.js: the readiness interval is set
    serverReady,        \* start-with-tunnel.js: a probe has been answered 200
    probes,             \* start-with-tunnel.js: the readiness requests in flight
    tunnelProcess,      \* start-with-tunnel.js: null (0) or the ngrok process last spawned
    tunnelRestartCount, \* start-with-tunnel.js
    tunnels,            \* the ngrok processes spawned so far, with their undelivered events
    restartTimers,      \* start-with-tunnel.js: the restart timeouts that are pending
    scheduled,     \* history: the last reconnect delay and the failure it followed
    loadedOnce,    \* history: some load has run to its end without an error
    lastCall,      \* history: the last operation, its arguments and its outcome
    asked          \* history: one getCatalogItems call since the last load, or none

svcVars == <<catalogData, catalogMap, initialized, dataPath>>

apiVars == <<cachedAddonInterface, cachedManifest, initializationPromise, requests, builds>>

supVars ==
    <<isLocal, supervisorProc, checkServer, serverReady, probes, tunnelProcess,
      tunnelRestartCount, tunnels, restartTimers, scheduled>>

\* What the catalog service, the addon and the serverless function never touch.
extVars == <<catalogFile, supVars>>

vars == <<svcVars, serverProc, apiVars, loadedOnce, lastCall, asked, extVars>>

----------------------------------------------------------------------------
(* Bounds of the model. *)

MaxCatalogs == 2

MaxItems == 2

\* The longest catalog of the paginated queries.
MaxPageItems == 10

\* The requests the serverless handler has in flight together.
MaxRequests == 2

\* The change notifications raised for the catalog file in one run.
MaxChanges == 2

\* The ngrok processes start-with-tunnel.js spawns in one run.
MaxTunnels == 3

\* The readiness requests start-with-tunnel.js has in flight together.
MaxProbes == 2

----------------------------------------------------------------------------
(* JavaScript values. *)

JUndef == [t |-> "undefined"]

JNull == [t |-> "null"]

JStr(s) == [t |-> "string", s |-> s]

JNum(n) == [t |-> "number", n |-> n]

JArr(v) == [t |-> "array", v |-> v]

JBool(b) == [t |-> "boolean", b |-> b]

\* NaN, the number parseInt and Number give for text that is no number.
JNaN == [t |-> "NaN"]

\* JavaScript truthiness of a value (objects, which carry no tag here, are
\* never tested with it).
Truthy(x) ==
    CASE x.t = "undefined" -> FALSE
      [] x.t = "null" -> FALSE
      [] x.t = "string" -> x.s # <<>>
      [] x.t = "number" -> x.n # 0
      [] x.t = "NaN" -> FALSE
      [] x.t = "boolean" -> x.b
      [] OTHER -> TRUE

IsArray(x) == x.t = "array"

\* String conversion inside a template literal.
ToStr(x) ==
    CASE x.t = "string" -> x.s
      [] x.t = "undefined" -> <<"u", "n", "d", "e", "f", "i", "n", "e", "d">>
      [] x.t = "null" -> <<"n", "u", "l", "l">>
      [] OTHER -> <<"?">>

----------------------------------------------------------------------------
(* Errors. *)

NoError == [name |-> "none"]

\* new DataLoadError(message): message is prefixed by the constructor.
DataLoadError(msg) == [name |-> "DataLoadError", message |-> msg]

TypeError == [name |-> "TypeError"]

NotInitialized == DataLoadError("Catalog data not initialized")

Ok(v) == [threw |-> NoError, result |-> v]

Throw(e) == [threw |-> e, result |-> JUndef]

----------------------------------------------------------------------------
(* Strings: character classes, trimming and case folding. *)

\* The characters the model's strings are made of, in code-unit order: space,
\* plus, minus, 0-9, colon, A-Z, underscore, a-z.
LowerLetters == <<"a", "b", "c", "d", "e", "f", "g", "h", "i", "j", "k", "l", "m",
                  "n", "o", "p", "q", "r", "s", "t", "u", "v", "w", "x", "y", "z">>

UpperLetters == <<"A", "B", "C", "D", "E", "F", "G", "H", "I", "J", "K", "L", "M",
                  "N", "O", "P", "Q", "R", "S", "T", "U", "V", "W", "X", "Y", "Z">>

Digits == <<"0", "1", "2", "3", "4", "5", "6", "7", "8", "9">>

Alphabet == <<" ", "+", "-">> \o Digits \o <<":">> \o UpperLetters \o <<"_">> \o LowerLetters

CharCode(c) == CHOOSE i \in 1..Len(Alphabet) : Alphabet[i] = c

IsSpace(c) == c = " "

ToLowerChar(c) ==
    IF \E i \in 1..Len(UpperLetters) : UpperLetters[i] = c
    THEN LowerLetters[CHOOSE i \in 1..Len(UpperLetters) : UpperLetters[i] = c]
    ELSE c

ToUpperChar(c) ==
    IF \E i \in 1..Len(LowerLetters) : LowerLetters[i] = c
    THEN UpperLetters[CHOOSE i \in 1..Len(LowerLetters) : LowerLetters[i] = c]
    ELSE c

\* String.prototype.toLowerCase
ToLowerCase(s) == [i \in 1..Len(s) |-> ToLowerChar(s[i])]

RECURSIVE TrimStart(_)
TrimStart(s) ==
    IF s # <<>> /\ IsSpace(Head(s)) THEN TrimStart(Tail(s)) ELSE s

RECURSIVE TrimEnd(_)
TrimEnd(s) ==
    IF s # <<>> /\ IsSpace(s[Len(s)]) THEN TrimEnd(SubSeq(s, 1, Len(s) - 1)) ELSE s

\* String.prototype.trim
Trim(s) == TrimEnd(TrimStart(s))

\* Array.prototype.slice(from) and slice(0, to) on a sequence.
SliceFrom(seq, from) == SubSeq(seq, from + 1, Len(seq))

SliceTo(seq, to) == SubSeq(seq, 1, IF to < Len(seq) THEN to ELSE Len(seq))

Range(seq) == {seq[i] : i \in 1..Len(seq)}

IsDigit(c) == \E i \in 1..Len(Digits) : Digits[i] = c

DigitValue(c) == (CHOOSE i \in 1..Len(Digits) : Digits[i] = c) - 1

\* The longest prefix of s made of decimal digits.
RECURSIVE LeadingDigits(_)
LeadingDigits(s) ==
    IF s # <<>> /\ IsDigit(Head(s)) THEN <<Head(s)>> \o LeadingDigits(Tail(s)) ELSE <<>>

RECURSIVE DecimalValue(_)
DecimalValue(ds) ==
    IF ds = <<>> THEN 0
    ELSE 10 * DecimalValue(SubSeq(ds, 1, Len(ds) - 1)) + DigitValue(ds[Len(ds)])

\* The text of n in decimal, n a natural number.
RECURSIVE Decimal(_)
Decimal(n) ==
    IF n < 10 THEN <<Digits[n + 1]>> ELSE Decimal(n \div 10) \o <<Digits[(n % 10) + 1]>>

\* parseInt(x, 10): leading white space, a sign, then the digits up to the
\* first character that is none; NaN when there is no digit. A number is
\* converted to its text first, which gives an integer back.
ParseInt(x) ==
    IF x.t = "number" THEN x
    ELSE IF x.t # "string" THEN JNaN
    ELSE LET s == TrimStart(x.s)
             signed == s # <<>> /\ Head(s) \in {"+", "-"}
             ds == LeadingDigits(IF signed THEN Tail(s) ELSE s)
         IN IF ds = <<>> THEN JNaN
            ELSE IF signed /\ Head(s) = "-" THEN JNum(0 - DecimalValue(ds))
            ELSE JNum(DecimalValue(ds))

\* ToNumber, the conversion behind `x > 0` and slice(x): a string is a number
\* only if all of it is one (blank is 0); undefined is NaN and null is 0.
ToNumber(x) ==
    IF x.t = "number" THEN x
    ELSE IF x.t = "null" THEN JNum(0)
    ELSE IF x.t # "string" THEN JNaN
    ELSE LET s == Trim(x.s)
             signed == s # <<>> /\ Head(s) \in {"+", "-"}
             body == IF signed THEN Tail(s) ELSE s
         IN IF s = <<>> THEN JNum(0)
            ELSE IF body = <<>> \/ LeadingDigits(body) # body THEN JNaN
            ELSE IF Head(s) = "-" THEN JNum(0 - DecimalValue(body))
            ELSE JNum(DecimalValue(body))

\* x > 0 on any value: false when x is no number.
GreaterThanZero(x) == ToNumber(x) # JNaN /\ ToNumber(x).n > 0

----------------------------------------------------------------------------
(* The catalog document (catalog_data.json). *)

\* A JSON object of catalog_items; a field the object lacks is undefined.
Item(id, name, genres) ==
    [id |-> id, name |-> name, poster |-> JUndef, banner |-> JUndef,
     description |-> JUndef, releaseInfo |-> JUndef, runtime |-> JUndef,
     imdbRating |-> JUndef, genres |-> genres]

\* A JSON object of catalogs.
Catalog(type, name, items) ==
    [catalog_type |-> type, catalog_name |-> name, catalog_items |-> items]

Document(cats) == [catalogs |-> JArr(cats)]

\* What a load finds at the path: no file (path resolution fails), a file that
\* cannot be read once resolved, text that is not JSON, JSON without a
\* catalogs array, or a document.
FileMissing == [kind |-> "missing"]

FileUnreadable == [kind |-> "unreadable"]

FileMalformed == [kind |-> "malformed"]

FileNoCatalogs == [kind |-> "json", data |-> [catalogs |-> JUndef]]

FileJsonNull == [kind |-> "json", data |-> JNull]

FileDoc(cats) == [kind |-> "json", data |-> Document(cats)]

----------------------------------------------------------------------------
(* CatalogService: the state as a record, so that a query can be evaluated  *)
(* on any snapshot of it.                                                   *)

NoData == JNull

EmptyMap == [k \in {} |-> JNull]

\* The constructor.
NewService ==
    [catalogData |-> NoData, catalogMap |-> EmptyMap, initialized |-> FALSE,
     dataPath |-> JNull]

Svc ==
    [catalogData |-> catalogData, catalogMap |-> catalogMap,
     initialized |-> initialized, dataPath |-> dataPath]

\* `${type}:${name}`
Key(type, name) == ToStr(type) \o <<":">> \o ToStr(name)

\* Map.prototype.set
MapSet(m, k, v) == [x \in (DOMAIN m) \cup {k} |-> IF x = k THEN v ELSE m[x]]

MapHas(m, k) == k \in DOMAIN m

\* Map.prototype.get
MapGet(m, k) == IF k \in DOMAIN m THEN m[k] ELSE JUndef

\* A _buildCatalogMap that does not clear the map first.
MapClearSkipped(m) == m

\* Map.prototype.clear
MapClear(m) == EmptyMap

\* The forEach of _buildCatalogMap from catalog i on: reading a field of a null
\* entry throws, and leaves the entries set so far.
RECURSIVE BuildFrom(_, _, _)
BuildFrom(cats, i, m) ==
    IF i > Len(cats) THEN [map |-> m, threw |-> NoError]
    ELSE IF cats[i] = JNull THEN [map |-> m, threw |-> TypeError]
    ELSE IF Truthy(cats[i].catalog_type) /\ Truthy(cats[i].catalog_name)
         THEN BuildFrom(cats, i + 1,
                        MapSet(m, Key(cats[i].catalog_type, cats[i].catalog_name), cats[i]))
         ELSE BuildFrom(cats, i + 1, m)

\* _buildCatalogMap on the service's catalogData.
BuildCatalogMap(oldMap, data) ==
    IF data = NoData \/ ~IsArray(data.catalogs)
    THEN [map |-> MapClear(oldMap), threw |-> NoError]
    ELSE BuildFrom(data.catalogs.v, 1, MapClear(oldMap))

\* A _loadDataFromFile that sets initialized before it builds the map.
LoadDataFromFileInitFirst(s, file) ==
    IF s.dataPath = JNull \/ file.kind \in {"missing", "unreadable"}
    THEN [svc |-> s, threw |-> DataLoadError("Catalog data file not found")]
    ELSE IF file.kind = "malformed"
    THEN [svc |-> s, threw |-> DataLoadError("Unexpected token")]
    ELSE IF file.data = JNull \/ ~IsArray(file.data.catalogs)
    THEN [svc |-> s, threw |-> DataLoadError("Invalid catalog data format")]
    ELSE LET built == BuildCatalogMap(s.catalogMap, file.data)
         IN [svc |-> [s EXCEPT !.catalogData = file.data, !.catalogMap = built.map,
                               !.initialized = TRUE],
             threw |-> IF built.threw # NoError
                       THEN DataLoadError("Cannot read properties of null")
                       ELSE NoError]

\* _loadDataFromFile: the service after the call and what the call threw.
LoadDataFromFile(s, file) ==
    IF s.dataPath = JNull \/ file.kind \in {"missing", "unreadable"}
    THEN [svc |-> s, threw |-> DataLoadError("Catalog data file not found")]
    ELSE IF file.kind = "malformed"
    THEN [svc |-> s, threw |-> DataLoadError("Unexpected token")]
    ELSE IF file.data = JNull \/ ~IsArray(file.data.catalogs)
    THEN [svc |-> s, threw |-> DataLoadError("Invalid catalog data format")]
    ELSE LET built == BuildCatalogMap(s.catalogMap, file.data)
         IN IF built.threw # NoError
            THEN [svc |-> [s EXCEPT !.catalogData = file.data, !.catalogMap = built.map],
                  threw |-> DataLoadError("Cannot read properties of null")]
            ELSE [svc |-> [s EXCEPT !.catalogData = file.data, !.catalogMap = built.map,
                                    !.initialized = TRUE],
                  threw |-> NoError]

\* loadCatalogData(path): path resolution, then _loadDataFromFile; every error
\* is rethrown wrapped in a DataLoadError.
LoadCatalogDataOp(s, path, file) ==
    IF file.kind = "missing"
    THEN [svc |-> s, threw |-> DataLoadError("Catalog data file not found")]
    ELSE LET r == LoadDataFromFile([s EXCEPT !.dataPath = path], file)
         IN IF r.threw # NoError
            THEN [svc |-> r.svc, threw |-> DataLoadError(r.threw.message)]
            ELSE r

----------------------------------------------------------------------------
(* CatalogService: the accessors, each on a snapshot s of the service.      *)

\* getAllCatalogs: one { catalog_name, catalog_type } per entry of the raw
\* document; reading a field of a null entry throws.
GetAllCatalogsOp(s) ==
    IF ~s.initialized \/ s.catalogData = NoData THEN Throw(NotInitialized)
    ELSE LET cats == s.catalogData.catalogs.v
         IN IF JNull \in Range(cats) THEN Throw(TypeError)
            ELSE Ok([i \in 1..Len(cats) |->
                       [catalog_name |-> cats[i].catalog_name,
                        catalog_type |-> cats[i].catalog_type]])

\* A getSupportedTypes that collects the types in an array, not a Set.
RECURSIVE TypesUpToNoDedup(_, _)
TypesUpToNoDedup(cats, i) ==
    IF i = 0 THEN <<>>
    ELSE IF Truthy(cats[i].catalog_type)
         THEN Append(TypesUpToNoDedup(cats, i - 1), cats[i].catalog_type)
         ELSE TypesUpToNoDedup(cats, i - 1)

\* The Set of getSupportedTypes after the first i catalogs, in insertion order.
RECURSIVE TypesUpTo(_, _)
TypesUpTo(cats, i) ==
    IF i = 0 THEN <<>>
    ELSE LET before == TypesUpTo(cats, i - 1)
             type == cats[i].catalog_type
         IN IF Truthy(type) /\ type \notin Range(before)
            THEN Append(before, type)
            ELSE before

\* getSupportedTypes
GetSupportedTypesOp(s) ==
    IF ~s.initialized \/ s.catalogData = NoData THEN Throw(NotInitialized)
    ELSE LET cats == s.catalogData.catalogs.v
         IN IF JNull \in Range(cats) THEN Throw(TypeError)
            ELSE Ok(TypesUpTo(cats, Len(cats)))

\* catalogExists
CatalogExistsOp(s, type, catalogId) ==
    IF ~s.initialized THEN Ok(FALSE)
    ELSE Ok(MapHas(s.catalogMap, Key(type, catalogId)))

\* The order Array.prototype.sort gives strings: by code units, a proper
\* prefix first.
RECURSIVE StrLeq(_, _)
StrLeq(a, b) ==
    IF a = <<>> THEN TRUE
    ELSE IF b = <<>> THEN FALSE
    ELSE IF Head(a) = Head(b) THEN StrLeq(Tail(a), Tail(b))
    ELSE CharCode(Head(a)) < CharCode(Head(b))

\* Array.from(set).sort() on a set of strings.
RECURSIVE SortedStrings(_)
SortedStrings(S) ==
    IF S = {} THEN <<>>
    ELSE LET least == CHOOSE x \in S : \A y \in S : StrLeq(x.s, y.s)
         IN <<least>> \o SortedStrings(S \ {least})

\* The genres one item adds to the Set of getCatalogGenres.
ItemGenres(item) ==
    IF ~IsArray(item.genres) THEN {}
    ELSE {JStr(Trim(g.s)) : g \in {x \in Range(item.genres.v) : x.t = "string" /\ Truthy(x)}}

\* getCatalogGenres
GetCatalogGenresOp(s, type, catalogId) ==
    IF ~s.initialized \/ s.catalogData = NoData THEN Throw(NotInitialized)
    ELSE LET catalog == MapGet(s.catalogMap, Key(type, catalogId))
         IN IF catalog = JUndef \/ ~IsArray(catalog.catalog_items) THEN Ok(<<>>)
            ELSE IF JNull \in Range(catalog.catalog_items.v) THEN Throw(TypeError)
            ELSE Ok(SortedStrings(UNION {ItemGenres(it) : it \in Range(catalog.catalog_items.v)}))

\* A _transformToStremioMeta that copies every field, set or not, and keeps
\* the banner under its own name.
TransformCopiesEveryField(item, type) ==
    [f \in {"id", "type", "name", "poster", "banner", "description", "releaseInfo",
             "runtime", "imdbRating"} |->
        IF f = "type" THEN type ELSE item[f]]

\* _transformToStremioMeta: a field the item lacks (or holds falsy) is not a
\* field of the meta.
TransformToStremioMeta(item, type) ==
    LET copied == {f \in {"poster", "description", "releaseInfo", "runtime", "imdbRating"} :
                     Truthy(item[f])}
        renamed == IF Truthy(item.banner) THEN {"background"} ELSE {}
    IN [f \in {"id", "type", "name"} \cup copied \cup renamed |->
          CASE f = "id" -> (IF Truthy(item.id) THEN item.id ELSE JStr(<<>>))
            [] f = "type" -> type
            [] f = "name" -> (IF Truthy(item.name) THEN item.name
                              ELSE JStr(<<"U", "n", "k", "n", "o", "w", "n">>))
            [] f = "background" -> item.banner
            [] OTHER -> item[f]]

\* The options of getCatalogItems: { pagination: { skip, limit }, genre } or,
\* the older shape, { skip, limit } itself; a field not given is undefined.
Pagination(skip, limit) == [skip |-> skip, limit |-> limit]

NestedOptions(skip, limit, genre) ==
    [pagination |-> Pagination(skip, limit), genre |-> genre,
     skip |-> JUndef, limit |-> JUndef]

FlatOptions(skip, limit, genre) ==
    [pagination |-> JUndef, genre |-> genre, skip |-> skip, limit |-> limit]

\* The pagination object and the genre getCatalogItems takes from its options.
ExtractPagination(options) ==
    IF options.pagination # JUndef THEN options.pagination
    ELSE Pagination(options.skip, options.limit)

ExtractGenre(options) ==
    IF options.pagination # JUndef
    THEN (IF Truthy(options.genre) THEN options.genre ELSE JNull)
    ELSE JNull

\* A genre filter that lower-cases the item's genre without trimming it.
GenreMatchesNoTrim(item, genreLower) ==
    /\ IsArray(item.genres)
    /\ \E i \in 1..Len(item.genres.v) :
          LET itemGenre == item.genres.v[i]
          IN Truthy(itemGenre) /\ ToLowerCase(itemGenre.s) = genreLower

\* The predicate of the genre filter on one item.
GenreMatches(item, genreLower) ==
    /\ IsArray(item.genres)
    /\ \E i \in 1..Len(item.genres.v) :
          LET itemGenre == item.genres.v[i]
          IN Truthy(itemGenre) /\ ToLowerCase(Trim(itemGenre.s)) = genreLower

\* The filter step: all items unless genre is a non-empty string.
FilterByGenre(items, genre) ==
    IF Truthy(genre) /\ genre.t = "string"
    THEN LET genreLower == ToLowerCase(Trim(genre.s))
             Keep(item) == GenreMatches(item, genreLower)
         IN SelectSeq(items, Keep)
    ELSE items

\* A skip step that drops one item fewer than asked: slice(skip - 1).
ApplySkipKeepsOne(items, pagination) ==
    LET skip == IF Truthy(pagination.skip) THEN pagination.skip ELSE JNum(0)
    IN IF GreaterThanZero(skip) THEN SliceFrom(items, ToNumber(skip).n - 1) ELSE items

\* The pagination step on the transformed items.
ApplySkip(items, pagination) ==
    LET skip == IF Truthy(pagination.skip) THEN pagination.skip ELSE JNum(0)
    IN IF GreaterThanZero(skip) THEN SliceFrom(items, ToNumber(skip).n) ELSE items

\* A limit step without the `limit > 0` test: slice(0, limit) for every
\* truthy limit.
ApplyLimitUnchecked(items, pagination) ==
    LET limit == pagination.limit
        n == ToNumber(limit)
    IN IF ~Truthy(limit) THEN items
       ELSE IF n = JNaN THEN <<>>
       ELSE IF n.n >= 0 THEN SliceTo(items, n.n)
       ELSE SubSeq(items, 1, Len(items) + n.n)

ApplyLimit(items, pagination) ==
    LET limit == pagination.limit
    IN IF Truthy(limit) /\ GreaterThanZero(limit) THEN SliceTo(items, ToNumber(limit).n)
       ELSE items

\* A getCatalogItems that throws the CatalogNotFoundError it imports.
CatalogNotFoundThrows(key) == Throw([name |-> "CatalogNotFoundError"])

\* What getCatalogItems does when the composite key names no catalog.
CatalogNotFound(key) == Ok(<<>>)

\* What getCatalogItems does when the catalog has no catalog_items array.
CatalogHasNoItems(key) == Ok(<<>>)

\* A getCatalogItems that skips and limits before it filters by genre.
GetCatalogItemsPaginatesFirst(s, type, catalogId, options) ==
    IF ~s.initialized THEN Throw(NotInitialized)
    ELSE LET catalog == MapGet(s.catalogMap, Key(type, catalogId))
         IN IF catalog = JUndef \/ ~IsArray(catalog.catalog_items) THEN Ok(<<>>)
            ELSE LET pagination == ExtractPagination(options)
                     page == ApplyLimit(ApplySkip(catalog.catalog_items.v, pagination),
                                        pagination)
                     catalogItems == FilterByGenre(page, ExtractGenre(options))
                 IN Ok([i \in 1..Len(catalogItems) |->
                          TransformToStremioMeta(catalogItems[i], type)])

\* getCatalogItems
GetCatalogItemsOp(s, type, catalogId, options) ==
    IF ~s.initialized THEN Throw(NotInitialized)
    ELSE LET key == Key(type, catalogId)
             catalog == MapGet(s.catalogMap, key)
         IN IF catalog = JUndef THEN CatalogNotFound(key)
            ELSE IF ~IsArray(catalog.catalog_items) THEN CatalogHasNoItems(key)
            ELSE LET pagination == ExtractPagination(options)
                     genre == ExtractGenre(options)
                     all == catalog.catalog_items.v
                     filtering == Truthy(genre) /\ genre.t = "string"
                 IN IF filtering /\ JNull \in Range(all) THEN Throw(TypeError)
                    ELSE LET catalogItems == FilterByGenre(all, genre)
                         IN IF JNull \in Range(catalogItems) THEN Throw(TypeError)
                            ELSE LET items == [i \in 1..Len(catalogItems) |->
                                                 TransformToStremioMeta(catalogItems[i], type)]
                                 IN Ok(ApplyLimit(ApplySkip(items, pagination), pagination))

----------------------------------------------------------------------------
(* The catalog controller (src/src/controllers/catalogController.js).       *)

\* The arguments of a catalog request and its extra; a field not given is
\* undefined, and so is an extra that is not given.
Extra(skip, limit, genre) == [skip |-> skip, limit |-> limit, genre |-> genre]

Args(type, id, extra) == [type |-> type, id |-> id, extra |-> extra]

\* extra?.field
ExtraField(extra, f) == IF extra \in {JUndef, JNull} THEN JUndef ELSE extra[f]

\* The skip handed to the service: parseInt of a truthy extra.skip, else 0;
\* NaN or a negative number becomes 0.
SanitizeSkip(extra) ==
    LET given == ExtraField(extra, "skip")
        skip == IF Truthy(given) THEN ParseInt(given) ELSE JNum(0)
    IN IF skip = JNaN \/ skip.n < 0 THEN JNum(0) ELSE skip

\* The limit handed to the service: parseInt of a truthy extra.limit, else
\* undefined; NaN or a negative number becomes undefined.
SanitizeLimit(extra) ==
    LET given == ExtraField(extra, "limit")
        limit == IF Truthy(given) THEN ParseInt(given) ELSE JUndef
    IN IF limit # JUndef /\ (limit = JNaN \/ limit.n < 0) THEN JUndef ELSE limit

\* { metas: [...] }
Metas(items) == [metas |-> items]

\* handleCatalogRequest: what the returned promise settles to. threw is the
\* rejection: the function is async, so an error thrown outside its try block
\* (by getSupportedTypes) rejects the promise.
HandleCatalogRequestOp(s, args) ==
    LET type == IF args = JUndef THEN JUndef ELSE args.type
        id == IF args = JUndef THEN JUndef ELSE args.id
        extra == IF args = JUndef THEN JUndef ELSE args.extra
        supportedTypes == GetSupportedTypesOp(s)
    IN IF ~Truthy(type) THEN Ok(Metas(<<>>))
       ELSE IF supportedTypes.threw # NoError THEN Throw(supportedTypes.threw)
       ELSE IF type \notin Range(supportedTypes.result) THEN Ok(Metas(<<>>))
       ELSE IF ~Truthy(id) THEN Ok(Metas(<<>>))
       ELSE LET genre == IF Truthy(ExtraField(extra, "genre"))
                         THEN ExtraField(extra, "genre") ELSE JNull
                options == NestedOptions(SanitizeSkip(extra), SanitizeLimit(extra), genre)
                items == GetCatalogItemsOp(s, type, id, options)
            IN IF items.threw # NoError THEN Ok(Metas(<<>>)) ELSE Ok(Metas(items.result))

----------------------------------------------------------------------------
(* The manifest (src/unnamed/part_000) and the addon (src/unnamed/part_003). *)

\* The segments of name.split('_').
RECURSIVE SplitUnderscore(_)
SplitUnderscore(name) ==
    IF \A i \in 1..Len(name) : name[i] # "_" THEN <<name>>
    ELSE LET at == CHOOSE i \in 1..Len(name) :
                      name[i] = "_" /\ \A j \in 1..(i - 1) : name[j] # "_"
         IN <<SubSeq(name, 1, at - 1)>> \o SplitUnderscore(SubSeq(name, at + 1, Len(name)))

\* A capitalisation that upper-cases the whole word.
CapitalizeWholeWord(word) == [i \in 1..Len(word) |-> ToUpperChar(word[i])]

\* word.charAt(0).toUpperCase() + word.slice(1)
Capitalize(word) ==
    IF word = <<>> THEN <<>> ELSE <<ToUpperChar(Head(word))>> \o Tail(word)

\* words.join(' ')
RECURSIVE JoinSpace(_)
JoinSpace(words) ==
    IF Len(words) = 0 THEN <<>>
    ELSE IF Len(words) = 1 THEN Head(words)
    ELSE Head(words) \o <<" ">> \o JoinSpace(Tail(words))

\* formatCatalogName
FormatCatalogName(catalogName) ==
    IF ~Truthy(catalogName)
    THEN JStr(<<"U", "n", "k", "n", "o", "w", "n", " ", "C", "a", "t", "a", "l", "o", "g">>)
    ELSE LET words == SplitUnderscore(catalogName.s)
         IN JStr(JoinSpace([i \in 1..Len(words) |-> Capitalize(words[i])]))

\* An extra that also advertises the genre filter, as the disabled code did.
ManifestExtraWithGenre ==
    <<[name |-> "skip", isRequired |-> FALSE], [name |-> "genre", isRequired |-> FALSE]>>

\* The extra of every manifest catalog.
ManifestExtra == <<[name |-> "skip", isRequired |-> FALSE]>>

\* The first required field of the configuration that is missing, if any.
MissingConfig(config) ==
    IF ~Truthy(config.addonId) THEN "addonId"
    ELSE IF ~Truthy(config.addonVersion) THEN "addonVersion"
    ELSE IF ~Truthy(config.addonName) THEN "addonName"
    ELSE IF ~Truthy(config.addonDescription) THEN "addonDescription"
    ELSE IF ~Truthy(config.idPrefixes) \/ ~IsArray(config.idPrefixes) THEN "idPrefixes"
    ELSE "none"

\* generateManifest: every error is rethrown as a DataLoadError.
GenerateManifestOp(s, config) ==
    LET all == GetAllCatalogsOp(s)
        types == GetSupportedTypesOp(s)
    IN IF all.threw # NoError \/ types.threw # NoError
       THEN Throw(DataLoadError("Manifest generation failed"))
       ELSE IF MissingConfig(config) # "none"
       THEN Throw(DataLoadError("Manifest generation failed"))
       ELSE LET catalogs == all.result
                optional == {f \in {"logo", "background"} :
                               Truthy(IF f = "logo" THEN config.addonLogo
                                      ELSE config.addonBackground)}
            IN Ok([f \in {"id", "version", "name", "description", "resources", "types",
                          "catalogs", "idPrefixes"} \cup optional |->
                     CASE f = "id" -> config.addonId
                       [] f = "version" -> config.addonVersion
                       [] f = "name" -> config.addonName
                       [] f = "description" -> config.addonDescription
                       [] f = "resources" -> <<"catalog">>
                       [] f = "types" -> types.result
                       [] f = "catalogs" ->
                            [i \in 1..Len(catalogs) |->
                               [type |-> catalogs[i].catalog_type,
                                id |-> catalogs[i].catalog_name,
                                name |-> FormatCatalogName(catalogs[i].catalog_name),
                                extra |-> ManifestExtra]]
                       [] f = "idPrefixes" -> config.idPrefixes
                       [] f = "logo" -> config.addonLogo
                       [] OTHER -> config.addonBackground])

\* addonConfig with no environment variable set: every field but the
\* background has a default.
AddonConfig ==
    [addonId |-> JStr(<<"i", "d">>), addonVersion |-> JStr(<<"0">>),
     addonName |-> JStr(<<"R", "K", "P">>), addonDescription |-> JStr(<<"d">>),
     addonLogo |-> JStr(<<"l", "o", "g", "o">>), addonBackground |-> JNull,
     idPrefixes |-> JArr(<<JStr(<<"t", "t">>)>>)]

\* A buildAddon whose catch logs the error and does not rethrow it.
BuildAddonSwallowsError(s, path, file, config, sdkOk) ==
    [svc |-> LoadCatalogDataOp(s, path, file).svc, threw |-> NoError, result |-> JUndef]

\* buildAddon: load, generate the manifest, hand it to the SDK's addonBuilder
\* (which may reject it: sdkOk); whatever is thrown is logged and rethrown.
BuildAddonOp(s, path, file, config, sdkOk) ==
    LET loaded == LoadCatalogDataOp(s, path, file)
    IN IF loaded.threw # NoError
       THEN [svc |-> loaded.svc, threw |-> loaded.threw, result |-> JUndef]
       ELSE LET manifest == GenerateManifestOp(loaded.svc, config)
            IN IF manifest.threw # NoError
               THEN [svc |-> loaded.svc, threw |-> manifest.threw, result |-> JUndef]
               ELSE IF ~sdkOk
               THEN [svc |-> loaded.svc, threw |-> [name |-> "Error"], result |-> JUndef]
               ELSE [svc |-> loaded.svc, threw |-> NoError,
                     result |-> [manifest |-> manifest.result]]

----------------------------------------------------------------------------
(* The serverless entry point (src/api/index.js).                           *)

\* initializationPromise: null, or a promise that is settled as soon as it is
\* assigned, because the async function that makes it contains no await.
NoPromise == [state |-> "null"]

Fulfilled == [state |-> "fulfilled"]

Rejected(error) == [state |-> "rejected", error |-> error]

\* getAddonInterface up to its await: the service and the caches after the
\* call, and what the promise it returns settles to. The catch block of the
\* initialization sets initializationPromise to null while the async function
\* is still running; the assignment of the function's promise follows it, so
\* a failed initialization leaves the rejected promise in the variable.
GetAddonInterfaceOp(s, cached, promise, path, file, sdkOk) ==
    IF cached # JNull
    THEN [svc |-> s, cached |-> cached, promise |-> promise, threw |-> NoError]
    ELSE IF promise # NoPromise
    THEN [svc |-> s, cached |-> cached, promise |-> promise,
          threw |-> IF promise.state = "rejected" THEN promise.error ELSE NoError]
    ELSE IF file.kind = "missing"
    THEN [svc |-> s, cached |-> JNull, promise |-> Rejected([name |-> "Error"]),
          threw |-> [name |-> "Error"]]
    ELSE LET built == BuildAddonOp(s, path, file, AddonConfig, sdkOk)
         IN IF built.threw # NoError
            THEN [svc |-> built.svc, cached |-> JNull, promise |-> Rejected(built.threw),
                  threw |-> built.threw]
            ELSE [svc |-> built.svc, cached |-> built.result, promise |-> Fulfilled,
                  threw |-> NoError]

\* A request: its method, the route its path matches and, for the catalog
\* route, the type and id of the path with the query as extra.
Request(method, route, args) == [method |-> method, route |-> route, args |-> args]

\* res.status(status).json(body); end() sends no body.
Response(status, body) == [status |-> status, body |-> body]

NoBody == JUndef

\* A catalog route whose catch answers like the outer catch of the handler.
CatalogRouteFailure500 == Response(500, [error |-> "Internal server error"])

\* The answer of the catalog route's catch block.
CatalogRouteFailure == Response(200, Metas(<<>>))

\* The answers of the routes that touch no state.
StaticResponse(route) ==
    CASE route = "health" -> Response(200, [status |-> "ok"])
      [] route = "root" -> Response(200, [message |-> "RKP Favourites Stremio Addon"])
      [] OTHER -> Response(404, [error |-> "Not found"])

\* A request slot: free, at an await of the handler, or answered.
Idle == [pc |-> "idle"]

Waiting(pc, req, out) == [pc |-> pc, req |-> req, out |-> out]

Answered(req, failed, res) == [pc |-> "done", req |-> req, failed |-> failed, res |-> res]

----------------------------------------------------------------------------
(* The startup script (src/unnamed/part_005, start-with-tunnel.js): it      *)
(* spawns server.js and, in local mode, keeps an ngrok tunnel running.      *)

\* let tunnelProcess = null
NoProcess == 0

MAX_RESTART_DELAY == 30000

INITIAL_RESTART_DELAY == 2000

\* Math.min
MathMin(a, b) == IF a <= b THEN a ELSE b

\* Math.min(INITIAL_RESTART_DELAY * Math.pow(2, tunnelRestartCount - 1),
\* MAX_RESTART_DELAY), for the count just incremented.
RestartDelay(count) == MathMin(INITIAL_RESTART_DELAY * 2 ^ (count - 1), MAX_RESTART_DELAY)

\* The events of a child process that its handlers have not run for yet.
ErrorEvent == [name |-> "error"]

CloseEvent(code) == [name |-> "close", code |-> code]

\* child_process.spawn: a process that runs, or one that could not be spawned;
\* Node then emits 'error' and, once its pipes are closed, 'close' with the
\* negative errno as the code. `by` is what called startTunnelProcess, and
\* `counted` whether the termination has been counted as a failure (history).
SpawnTunnel(ok, by) ==
    [alive |-> ok,
     events |-> IF ok THEN <<>> ELSE <<ErrorEvent, CloseEvent(JNum(0 - 2))>>,
     by |-> by, counted |-> FALSE]

\* What start-with-tunnel.js has scheduled last to reconnect: the delay, and
\* whether it followed an abnormal termination; failures counts the tunnel
\* processes that have terminated abnormally since a tunnel URL was last
\* reported.
NoSchedule == [failures |-> 0, delay |-> 0, abnormal |-> FALSE]

\* The answers of http.get to the readiness request: a response with its
\* status code once the server listens, or an 'error' (refused, or destroyed
\* by the 1 s timeout).
ProbeError == [error |-> TRUE]

ProbeResponse(statusCode) == [statusCode |-> statusCode]

----------------------------------------------------------------------------
(* The inputs the model draws from. *)

SeqsUpTo(S, n) == UNION {[1..k -> S] : k \in 0..n}

TypeM == JStr(<<"m">>)

TypeS == JStr(<<"s">>)

NameA == JStr(<<"a">>)

NameB == JStr(<<"b">>)

Drama == JStr(<<"D", "r", "a", "m", "a">>)

Item1 == Item(JStr(<<"t", "1">>), JStr(<<"A">>), JArr(<<Drama>>))

Item2 == Item(JStr(<<"t", "2">>), JStr(<<"B">>), JUndef)

\* Catalogs of the documents loaded under Spec: two with the same composite
\* key, one without catalog_items, one without a type, one with an empty
\* name, and a null entry.
CatMA == Catalog(TypeM, NameA, JArr(<<Item1, Item2>>))

CatMA2 == Catalog(TypeM, NameA, JArr(<<Item2>>))

CatSB == Catalog(TypeS, NameB, JUndef)

CatNoType == Catalog(JUndef, NameA, JArr(<<Item1>>))

CatNoName == Catalog(TypeS, JStr(<<>>), JArr(<<Item2>>))

IndexCatalogs == {CatMA, CatMA2, CatSB, CatNoType, CatNoName, JNull}

FailingFiles == {FileMissing, FileUnreadable, FileMalformed, FileNoCatalogs, FileJsonNull}

IndexFiles == FailingFiles \cup {FileDoc(cats) : cats \in SeqsUpTo(IndexCatalogs, MaxCatalogs)}

\* Items of the documents loaded under SpecQuery, by their genres: an entry
\* that differs from "Drama" in case and trailing space, no match, no genres
\* field, a match in second place, an empty entry, a blank entry, no entry.
Action == JStr(<<"A", "c", "t", "i", "o", "n">>)

DramaLowerSpace == JStr(<<"d", "r", "a", "m", "a", " ">>)

Blank == JStr(<<" ">>)

GenreItems ==
    {Item(JStr(<<"g", "1">>), JStr(<<"A">>), JArr(<<DramaLowerSpace>>)),
     Item(JStr(<<"g", "2">>), JStr(<<"B">>), JArr(<<Action>>)),
     Item(JStr(<<"g", "3">>), JStr(<<"C">>), JUndef),
     Item(JStr(<<"g", "4">>), JStr(<<"D">>), JArr(<<Action, Drama>>)),
     Item(JStr(<<"g", "5">>), JStr(<<"E">>), JArr(<<JStr(<<>>)>>)),
     Item(JStr(<<"g", "6">>), JStr(<<"F">>), JArr(<<Blank, Blank>>)),
     Item(JStr(<<"g", "7">>), JStr(<<"G">>), JArr(<<>>))}

QueryFiles ==
    {FileDoc(<<Catalog(TypeM, NameA, JArr(items))>>) : items \in SeqsUpTo(GenreItems, MaxItems)}

\* Genre filters: non-empty strings, one of them blank.
GenreFilters ==
    {Drama, DramaLowerSpace, JStr(<<" ", "D", "R", "A", "M", "A">>), Action, Blank,
     JStr(<<"d", "r", "a", "m">>)}

\* The options getCatalogItems is called with under SpecQuery.
GenreOptions ==
    {NestedOptions(JNum(0), JUndef, genre) : genre \in {JNull, Drama, Blank, Action}}
    \cup {NestedOptions(JNum(1), JNum(1), Drama), FlatOptions(JNum(0), JUndef, Drama)}

\* The path given to loadCatalogData, resolved.
DataPathArg == JStr(<<"c", ":", "d">>)

QueryTypes == {TypeM, TypeS}

QueryIds == {NameA, NameB}

\* Arguments of getCatalogItems: skip and limit, genre filters, both shapes.
NumberArgs == {JUndef, JNum(0 - 1), JNum(0), JNum(1), JNum(2)}

GenreArgs == {JUndef, JNull, JStr(<<>>), Drama, JStr(<<"d", "r", "a", "m", "a", " ">>)}

AllOptions ==
    {NestedOptions(skip, limit, genre) :
        skip \in NumberArgs, limit \in NumberArgs, genre \in GenreArgs}
    \cup {FlatOptions(skip, limit, genre) :
        skip \in NumberArgs, limit \in NumberArgs, genre \in GenreArgs}

IndexOptions == {NestedOptions(JUndef, JUndef, JUndef), FlatOptions(JNum(1), JUndef, JUndef)}

\* Arguments of handleCatalogRequest: none at all, no type, no id, a type no
\* catalog has, and requests with and without extra.
NoExtra == Extra(JUndef, JUndef, JUndef)

ControllerArgs ==
    {JUndef,
     Args(JUndef, NameA, JUndef),
     Args(TypeM, JUndef, NoExtra),
     Args(JStr(<<"x">>), NameA, NoExtra),
     Args(TypeM, NameA, JUndef),
     Args(TypeM, NameA, Extra(JStr(<<"1">>), JStr(<<"1">>), Drama)),
     Args(TypeS, NameB, Extra(JStr(<<"a">>), JStr(<<"-", "1">>), JUndef))}

\* Configurations of generateManifest: the defaults, each required field
\* missing in turn, idPrefixes that is no array, and the optional fields
\* both ways.
ManifestConfigs ==
    {AddonConfig,
     [AddonConfig EXCEPT !.addonId = JUndef],
     [AddonConfig EXCEPT !.addonVersion = JStr(<<>>)],
     [AddonConfig EXCEPT !.addonName = JNull],
     [AddonConfig EXCEPT !.addonDescription = JUndef],
     [AddonConfig EXCEPT !.idPrefixes = JUndef],
     [AddonConfig EXCEPT !.idPrefixes = JStr(<<"t", "t">>)],
     [AddonConfig EXCEPT !.addonLogo = JUndef, !.addonBackground = JStr(<<"b", "g">>)]}

\* Items of the paginated catalogs: item i has id "p<i>"; odd items are
\* Drama, even ones Action, every fifth has no genres.
PageItem(i) ==
    Item(JStr(<<"p">> \o Decimal(i)), JStr(<<"N">> \o Decimal(i)),
         IF i % 5 = 0 THEN JUndef
         ELSE IF i % 2 = 1 THEN JArr(<<Drama>>) ELSE JArr(<<Action>>))

PageItems(k) == [i \in 1..k |-> PageItem(i)]

Reverse(seq) == [i \in 1..Len(seq) |-> seq[Len(seq) + 1 - i]]

\* Items by the fields they carry: all of them and a type of its own, none,
\* only falsy ones, and a banner alone.
ItemFull ==
    [id |-> JStr(<<"f">>), name |-> JStr(<<"F">>), poster |-> JStr(<<"p">>),
     banner |-> JStr(<<"b">>), description |-> JStr(<<"d">>),
     releaseInfo |-> JStr(<<"2", "0", "2", "5">>), runtime |-> JStr(<<"9", "0">>),
     imdbRating |-> JNum(8), genres |-> JArr(<<Drama>>), type |-> TypeS]

ItemBare == Item(JUndef, JUndef, JUndef)

ItemFalsy ==
    [id |-> JStr(<<>>), name |-> JStr(<<>>), poster |-> JStr(<<>>), banner |-> JNull,
     description |-> JStr(<<>>), releaseInfo |-> JUndef, runtime |-> JNum(0),
     imdbRating |-> JNull, genres |-> JArr(<<>>)]

ItemBanner == [Item(JStr(<<"b">>), JStr(<<"B">>), JUndef) EXCEPT !.banner = JStr(<<"b">>)]

FieldItems == {ItemFull, ItemBare, ItemFalsy, ItemBanner}

FieldItemSeqs ==
    {<<item>> : item \in FieldItems}
    \cup {<<ItemFull, ItemBare, ItemFalsy, ItemBanner>>, <<ItemBanner, ItemFull>>}

\* Catalog names to format.
BestMovies ==
    JStr(<<"b", "e", "s", "t", "_", "m", "o", "v", "i", "e", "s", "_", "o", "f", "_",
           "2", "0", "2", "5">>)

FormatNames ==
    {BestMovies, NameA, JStr(<<"_", "a">>), JStr(<<"a", "_", "_", "b">>),
     JStr(<<"a", "B", "c", "_">>), JStr(<<"A", "_", "2", "x">>), JStr(<<"_">>),
     JStr(<<>>), JUndef, JNull}

\* The documents loaded under SpecItems: one catalog m:a of paged items in
\* document order or reversed, or of items that differ in their fields; or
\* one empty catalog under a name to format.
ItemsFiles ==
    {FileMissing}
    \cup {FileDoc(<<Catalog(TypeM, NameA, JArr(PageItems(k)))>>) : k \in 0..MaxPageItems}
    \cup {FileDoc(<<Catalog(TypeM, NameA, JArr(Reverse(PageItems(k))))>>) : k \in 2..MaxPageItems}
    \cup {FileDoc(<<Catalog(TypeM, NameA, JArr(items))>>) : items \in FieldItemSeqs}
    \cup {FileDoc(<<Catalog(TypeM, name, JArr(<<>>))>>) : name \in FormatNames}

\* Values of skip and limit: missing, not numbers, negative, zero, positive,
\* up to and beyond the longest catalog.
NotANumber == JStr(<<"a", "b", "c">>)

MissingOrInvalid == {JUndef, JNull, JNaN, NotANumber, JStr(<<>>), JNum(0 - 1), JNum(0 - 5)}

Positive == {JNum(n) : n \in {1, 2, 3, MaxPageItems, MaxPageItems + 2}}

\* The options getCatalogItems is called with under SpecItems.
PageOptions ==
    {NestedOptions(skip, limit, genre) :
        skip \in {JUndef, JNum(2), JNum(MaxPageItems)}, limit \in {JUndef, JNum(3)},
        genre \in {JNull, Drama}}
    \cup {NestedOptions(NotANumber, JNum(0 - 1), JNull), FlatOptions(JNum(0 - 1), JNum(0), JNull),
          FlatOptions(JNum(2), JNum(3), JNull)}

\* The calls remembered under SpecItems.
AskOptions ==
    {NestedOptions(JUndef, JUndef, JNull), NestedOptions(JNum(2), JNum(3), JNull),
     NestedOptions(JNum(2), JUndef, Drama)}

\* The extra of the catalog requests under SpecItems: skip and limit as the
\* text of a query string.
PageExtras ==
    {NoExtra,
     Extra(JStr(<<"2">>), JStr(<<"3">>), JUndef),
     Extra(JStr(<<"a", "b", "c">>), JStr(<<"a", "b", "c">>), JUndef),
     Extra(JStr(<<"-", "1">>), JStr(<<"-", "1">>), JUndef),
     Extra(JStr(<<"1">>), JStr(<<"0">>), Drama),
     Extra(JStr(<<"2", "a", "b">>), JUndef, JUndef)}

\* What the serverless function finds as catalog_data.json, and the requests
\* it gets.
ApiCatalogs == {CatMA, JNull}

ApiFiles == {FileMissing, FileMalformed}
            \cup {FileDoc(cats) : cats \in SeqsUpTo(ApiCatalogs, MaxCatalogs)}

ApiRequests ==
    {Request("GET", "catalog", Args(TypeM, NameA, NoExtra)),
     Request("GET", "catalog", Args(TypeS, NameA, Extra(JStr(<<"1">>), JUndef, Drama))),
     Request("OPTIONS", "catalog", Args(TypeM, NameA, NoExtra))}
    \cup {Request("GET", route, JUndef) : route \in {"manifest", "health", "root", "unknown"}}

RequestIds == 1..MaxRequests

----------------------------------------------------------------------------
(* The state machine. *)

\* No getCatalogItems call is remembered.
NoAsk == [op |-> "none"]

Call(op, args, out) ==
    [op |-> op, args |-> args, wasInit |-> initialized, threw |-> out.threw,
     result |-> out.result]

\* The modules as required: a new CatalogService, nothing cached.
InitAddon ==
    /\ catalogData = NewService.catalogData
    /\ catalogMap = NewService.catalogMap
    /\ initialized = NewService.initialized
    /\ dataPath = NewService.dataPath
    /\ cachedAddonInterface = JNull
    /\ cachedManifest = JNull
    /\ initializationPromise = NoPromise
    /\ requests = [r \in RequestIds |-> Idle]
    /\ builds = [addon |-> 0, manifest |-> 0]
    /\ loadedOnce = FALSE
    /\ lastCall = [op |-> "new", args |-> <<>>, wasInit |-> FALSE, threw |-> NoError,
                   result |-> JUndef]
    /\ asked = NoAsk

\* No start-with-tunnel.js process in this run.
NoSupervisor ==
    /\ isLocal = FALSE
    /\ supervisorProc = [pc |-> "none"]
    /\ checkServer = FALSE
    /\ serverReady = FALSE
    /\ probes = 0
    /\ tunnelProcess = NoProcess
    /\ tunnelRestartCount = 0
    /\ tunnels = <<>>
    /\ restartTimers = 0
    /\ scheduled = NoSchedule

\* The catalog file as the server's load is about to find it.
Deployed(file) == [content |-> file, changes |-> 0]

\* No deployment in this run: what a load finds is drawn by the load.
NotDeployed == catalogFile = Deployed(FileMissing) /\ NoSupervisor

Init ==
    /\ InitAddon
    /\ serverProc \in {[pc |-> "none"], [pc |-> "boot"]}
    /\ NotDeployed

\* The service is reachable: used as a module (no server.js process in this
\* run) or behind the serving server.
Serving == serverProc.pc \in {"none", "serving"}

SetService(s) ==
    /\ catalogData' = s.catalogData
    /\ catalogMap' = s.catalogMap
    /\ initialized' = s.initialized
    /\ dataPath' = s.dataPath

\* catalogService.loadCatalogData(path), a first load or a reload.
LoadCatalogData(files) ==
    /\ serverProc.pc = "none"
    /\ \E file \in files :
          \E r \in {LoadCatalogDataOp(Svc, DataPathArg, file)} :
             /\ SetService(r.svc)
             /\ loadedOnce' = (loadedOnce \/ r.threw = NoError)
             /\ lastCall' = Call("loadCatalogData", <<DataPathArg, file.kind>>,
                                 [threw |-> r.threw, result |-> JUndef])
    /\ asked' = NoAsk
    /\ UNCHANGED <<serverProc, apiVars, extVars>>

\* An accessor that marks the service as not loaded when it returns.
QueryClearsInitialized(op, args, out) ==
    /\ Serving
    /\ lastCall' = Call(op, args, out)
    /\ initialized' = FALSE
    /\ UNCHANGED <<catalogData, catalogMap, dataPath, serverProc, apiVars, loadedOnce, extVars>>

\* An accessor that empties the lookup map when it returns.
QueryDropsIndex(op, args, out) ==
    /\ Serving
    /\ lastCall' = Call(op, args, out)
    /\ catalogMap' = EmptyMap
    /\ UNCHANGED <<catalogData, initialized, dataPath, serverProc, apiVars, loadedOnce, extVars>>

Query(op, args, out) ==
    /\ Serving
    /\ lastCall' = Call(op, args, out)
    /\ UNCHANGED <<svcVars, serverProc, apiVars, loadedOnce, extVars>>

GetAllCatalogs ==
    /\ Query("getAllCatalogs", <<>>, GetAllCatalogsOp(Svc))
    /\ UNCHANGED asked

GetSupportedTypes ==
    /\ Query("getSupportedTypes", <<>>, GetSupportedTypesOp(Svc))
    /\ UNCHANGED asked

CatalogExists ==
    /\ \E type \in QueryTypes, id \in QueryIds :
          Query("catalogExists", <<type, id>>, CatalogExistsOp(Svc, type, id))
    /\ UNCHANGED asked

GetCatalogGenres ==
    /\ \E type \in QueryTypes, id \in QueryIds :
          Query("getCatalogGenres", <<type, id>>, GetCatalogGenresOp(Svc, type, id))
    /\ UNCHANGED asked

GetCatalogItems(types, ids, optionSet) ==
    /\ \E type \in types, id \in ids, options \in optionSet :
          Query("getCatalogItems", <<type, id, options>>,
                GetCatalogItemsOp(Svc, type, id, options))
    /\ UNCHANGED asked

\* A getCatalogItems call that is remembered, to be compared with a later
\* call of the same arguments.
AskCatalogItems(types, ids, optionSet) ==
    \E type \in types, id \in ids, options \in optionSet :
        \E out \in {GetCatalogItemsOp(Svc, type, id, options)} :
           /\ Query("getCatalogItems", <<type, id, options>>, out)
           /\ asked' = [op |-> "getCatalogItems", args |-> <<type, id, options>>,
                        threw |-> out.threw, result |-> out.result]

\* generateManifest(config), called on the loaded service.
GenerateManifest(configs) ==
    /\ \E config \in configs :
          Query("generateManifest", <<config>>, GenerateManifestOp(Svc, config))
    /\ UNCHANGED asked

\* handleCatalogRequest(args): the outcome is what its promise settles to.
HandleCatalogRequest(argSet) ==
    /\ \E args \in argSet :
          Query("handleCatalogRequest", <<args>>, HandleCatalogRequestOp(Svc, args))
    /\ UNCHANGED asked

\* server.js: buildAddon() inside the try; an error ends the process with
\* exit code 1, otherwise serveHTTP is called.
ServerBuildAddon(files) ==
    /\ serverProc.pc = "boot"
    /\ \E file \in files, sdkOk \in BOOLEAN :
          \E r \in {BuildAddonOp(Svc, DataPathArg, file, AddonConfig, sdkOk)} :
             /\ SetService(r.svc)
             /\ loadedOnce' = (loadedOnce \/ r.svc.initialized)
             /\ lastCall' = Call("buildAddon", <<DataPathArg, file.kind>>,
                                 [threw |-> r.threw, result |-> JUndef])
             /\ asked' = NoAsk
             /\ serverProc' = IF r.threw # NoError
                              THEN [pc |-> "exited", code |-> 1]
                              ELSE [pc |-> "listening"]
    /\ UNCHANGED <<apiVars, extVars>>

\* The callback of serveHTTP: an error ends the process with exit code 1.
ServeHTTPCallback ==
    /\ serverProc.pc = "listening"
    /\ \E err \in BOOLEAN :
          serverProc' = IF err THEN [pc |-> "exited", code |-> 1] ELSE [pc |-> "serving"]
    /\ UNCHANGED <<svcVars, apiVars, loadedOnce, lastCall, asked, extVars>>

\* SIGTERM or SIGINT: exit code 0.
ServerSignal ==
    /\ serverProc.pc \in {"listening", "serving"}
    /\ serverProc' = [pc |-> "exited", code |-> 0]
    /\ UNCHANGED <<svcVars, apiVars, loadedOnce, lastCall, asked, extVars>>

Next ==
    \/ LoadCatalogData(IndexFiles)
    \/ GetAllCatalogs
    \/ GetSupportedTypes
    \/ CatalogExists
    \/ GetCatalogGenres
    \/ GetCatalogItems(QueryTypes, QueryIds, IndexOptions)
    \/ ServerBuildAddon(IndexFiles)
    \/ ServeHTTPCallback
    \/ ServerSignal

Spec == Init /\ [][Next]_vars

----------------------------------------------------------------------------
(* What the claims speak of. *)

Catalogs(data) == data.catalogs.v

\* The positions of the catalogs that have both catalog_type and catalog_name.
KeyedPositions(cats) ==
    {i \in 1..Len(cats) :
        cats[i] # JNull /\ Truthy(cats[i].catalog_type) /\ Truthy(cats[i].catalog_name)}

KeyAt(cats, i) == Key(cats[i].catalog_type, cats[i].catalog_name)

\* A complete snapshot: a document with no null entry, and a lookup map that
\* holds exactly its keyed catalogs, the last one of each key.
SnapshotComplete(s) ==
    /\ s.catalogData # NoData
    /\ JNull \notin Range(Catalogs(s.catalogData))
    /\ LET cats == Catalogs(s.catalogData)
       IN /\ DOMAIN s.catalogMap = {KeyAt(cats, i) : i \in KeyedPositions(cats)}
          /\ \A i \in KeyedPositions(cats) :
                (\A j \in KeyedPositions(cats) : KeyAt(cats, j) = KeyAt(cats, i) => j <= i)
                    => s.catalogMap[KeyAt(cats, i)] = cats[i]

LoadOps == {"loadCatalogData", "buildAddon"}

QueryOps == {"getAllCatalogs", "getSupportedTypes", "getCatalogGenres", "getCatalogItems",
             "catalogExists"}

\* C1 (as claimed): once a load has succeeded, a later load that fails leaves
\* catalogData, catalogMap and initialized as they were (and with them the
\* result of every query).
C1_LastKnownGoodRetained ==
    [][(loadedOnce /\ lastCall'.op = "loadCatalogData" /\ lastCall'.threw # NoError)
          => /\ catalogData' = catalogData
             /\ catalogMap' = catalogMap
             /\ initialized' = initialized]_vars

\* C2 (as claimed): a query never observes a state that is not a complete
\* snapshot: whenever the service answers queries, catalogData and catalogMap
\* are the document and the full index of one and the same load.
C2_ReloadAtomic == initialized => SnapshotComplete(Svc)

\* C3 (as claimed): a load that fails after a successful one throws nothing to
\* its caller.
C3_ReloadFailureNotPropagated ==
    (lastCall.op = "loadCatalogData" /\ lastCall.wasInit) => lastCall.threw = NoError

\* C4: a first load that fails throws a DataLoadError and leaves initialized
\* false; buildAddon rethrows it and server.js exits with code 1, so the
\* server never listens or serves without loaded data.
C4_FirstLoadFailureAbortsStartup ==
    /\ (lastCall.op = "loadCatalogData" /\ ~lastCall.wasInit /\ lastCall.threw # NoError)
          => (lastCall.threw.name = "DataLoadError" /\ ~initialized)
    /\ (lastCall.op = "buildAddon" /\ ~initialized)
          => /\ lastCall.threw.name = "DataLoadError"
             /\ serverProc = [pc |-> "exited", code |-> 1]
    /\ serverProc.pc \in {"listening", "serving"} => initialized

\* C4's case: the server's first load failed while the index was being built,
\* and the process has exited.
C4_Witness ==
    /\ lastCall.op = "buildAddon"
    /\ ~initialized
    /\ catalogData # NoData
    /\ lastCall.threw.name = "DataLoadError"
    /\ serverProc.pc = "exited"

\* C5: before any load has succeeded, getAllCatalogs, getSupportedTypes,
\* getCatalogGenres and getCatalogItems throw the not-initialized DataLoadError
\* and catalogExists returns false, whatever the arguments.
C5_AccessorsFailBeforeFirstLoad ==
    ~loadedOnce =>
        /\ GetAllCatalogsOp(Svc).threw = NotInitialized
        /\ GetSupportedTypesOp(Svc).threw = NotInitialized
        /\ \A type \in QueryTypes, id \in QueryIds :
              /\ GetCatalogGenresOp(Svc, type, id).threw = NotInitialized
              /\ CatalogExistsOp(Svc, type, id) = Ok(FALSE)
              /\ \A options \in AllOptions :
                    GetCatalogItemsOp(Svc, type, id, options).threw = NotInitialized
        /\ (lastCall.op \in QueryOps \ {"catalogExists"}) => lastCall.threw = NotInitialized
        /\ lastCall.op = "catalogExists" => lastCall.result = FALSE

\* C5's case: getCatalogItems was called after a first load that failed while
\* the index was being built (catalogData is set, catalogMap may hold entries).
C5_Witness ==
    /\ ~loadedOnce
    /\ catalogData # NoData
    /\ DOMAIN catalogMap # {}
    /\ lastCall.op = "getCatalogItems"
    /\ lastCall.threw = NotInitialized

LastLoadSucceeded ==
    \/ lastCall.op = "loadCatalogData" /\ lastCall.threw = NoError
    \/ lastCall.op = "buildAddon" /\ initialized

\* C6: after a load that succeeded, the keys of catalogMap are exactly the
\* composite keys of the new document's catalogs that have both fields, each
\* mapped to a catalog of the new document with that key; nothing else is in it.
C6_FullRebuild ==
    LastLoadSucceeded =>
        LET cats == Catalogs(catalogData)
        IN /\ DOMAIN catalogMap = {KeyAt(cats, i) : i \in KeyedPositions(cats)}
           /\ \A k \in DOMAIN catalogMap :
                 \E i \in KeyedPositions(cats) : KeyAt(cats, i) = k /\ catalogMap[k] = cats[i]

\* C6's case: a reload replaced an index by that of a document with a catalog
\* that lacks a field.
C6_Witness ==
    /\ LastLoadSucceeded
    /\ lastCall.wasInit
    /\ catalogData = Document(<<CatNoType, CatMA2>>)
    /\ DOMAIN catalogMap = {Key(TypeM, NameA)}

\* C7 (as claimed): getAllCatalogs lists only the catalogs that have both
\* catalog_type and catalog_name, in document order.
C7_AllCatalogsListsKeyedOnly ==
    (lastCall.op = "getAllCatalogs" /\ lastCall.threw = NoError) =>
        LET cats == Catalogs(catalogData)
            r == lastCall.result
        IN /\ Len(r) = Cardinality(KeyedPositions(cats))
           /\ \A k \in 1..Len(r) :
                 \E i \in KeyedPositions(cats) :
                    /\ Cardinality({j \in KeyedPositions(cats) : j <= i}) = k
                    /\ r[k] = [catalog_name |-> cats[i].catalog_name,
                               catalog_type |-> cats[i].catalog_type]

\* C8: getSupportedTypes returns every catalog_type that is set in the loaded
\* document, each once, in the order of first occurrence.
C8_SupportedTypesDistinctFirstSeen ==
    (lastCall.op = "getSupportedTypes" /\ lastCall.threw = NoError) =>
        LET cats == Catalogs(catalogData)
            r == lastCall.result
            First(t) == CHOOSE i \in 1..Len(cats) :
                           /\ cats[i].catalog_type = t
                           /\ \A j \in 1..(i - 1) : cats[j].catalog_type # t
        IN /\ Range(r) = {cats[i].catalog_type :
                             i \in {j \in 1..Len(cats) : Truthy(cats[j].catalog_type)}}
           /\ \A i, j \in 1..Len(r) : i < j => (r[i] # r[j] /\ First(r[i]) < First(r[j]))

\* C8's case: two catalogs share a type, and the type is listed once.
C8_Witness ==
    /\ lastCall.op = "getSupportedTypes"
    /\ lastCall.threw = NoError
    /\ catalogData # NoData
    /\ Len(Catalogs(catalogData)) >= 2
    /\ \A i \in 1..Len(Catalogs(catalogData)) : Catalogs(catalogData)[i] # JNull
    /\ \A i \in 1..Len(Catalogs(catalogData)) : Catalogs(catalogData)[i].catalog_type = TypeM
    /\ lastCall.result = <<TypeM>>

\* The composite key names no catalog of the index, or one without a
\* catalog_items array.
NoItemsFor(type, id) ==
    LET catalog == MapGet(catalogMap, Key(type, id))
    IN catalog = JUndef \/ ~IsArray(catalog.catalog_items)

\* C9: on an initialized index, getCatalogItems for a pair that names no
\* catalog, or a catalog without a catalog_items array, returns an empty
\* sequence and throws nothing, for every genre, skip and limit.
C9_UnknownCatalogYieldsEmpty ==
    initialized =>
        /\ \A type \in QueryTypes, id \in QueryIds :
              NoItemsFor(type, id) =>
                  \A options \in AllOptions :
                      LET out == GetCatalogItemsOp(Svc, type, id, options)
                      IN out.threw = NoError /\ out.result = <<>>
        /\ (lastCall.op = "getCatalogItems" /\ NoItemsFor(lastCall.args[1], lastCall.args[2]))
              => (lastCall.threw = NoError /\ lastCall.result = <<>>)

\* C9's case: getCatalogItems was asked for a pair that is not in a non-empty
\* index, and returned the empty sequence.
C9_Witness ==
    /\ initialized
    /\ DOMAIN catalogMap # {}
    /\ lastCall.op = "getCatalogItems"
    /\ ~MapHas(catalogMap, Key(lastCall.args[1], lastCall.args[2]))
    /\ lastCall.threw = NoError
    /\ lastCall.result = <<>>

----------------------------------------------------------------------------
(* The queries on documents whose items differ in their genres. *)

InitQuery == Init /\ serverProc = [pc |-> "none"]

NextQuery ==
    \/ LoadCatalogData(QueryFiles)
    \/ GetCatalogItems({TypeM}, QueryIds, GenreOptions)
    \/ GetCatalogGenres

SpecQuery == InitQuery /\ [][NextQuery]_vars

\* The ids of a sequence of items or metas.
Ids(seq) == [i \in 1..Len(seq) |-> seq[i].id]

\* Trimmed and lower-cased.
Normalized(str) == ToLowerCase(Trim(str))

EntryEquals(item, genre) ==
    /\ IsArray(item.genres)
    /\ \E i \in 1..Len(item.genres.v) : Normalized(item.genres.v[i].s) = Normalized(genre.s)

NonEmptyEntryEquals(item, genre) ==
    /\ IsArray(item.genres)
    /\ \E i \in 1..Len(item.genres.v) :
          /\ item.genres.v[i].s # <<>>
          /\ Normalized(item.genres.v[i].s) = Normalized(genre.s)

\* The items of catalog (type, id), when it is indexed and has them.
ItemsOf(type, id) == MapGet(catalogMap, Key(type, id)).catalog_items.v

----------------------------------------------------------------------------
(* The queries on one catalog m:a of up to MaxPageItems items, on items that *)
(* differ in their fields, and the manifest of catalogs by their names.      *)

PageArgs == {Args(TypeM, NameA, extra) : extra \in PageExtras}

InitItems == Init /\ serverProc = [pc |-> "none"]

NextItems ==
    \/ LoadCatalogData(ItemsFiles)
    \/ GetCatalogItems({TypeM}, {NameA}, PageOptions)
    \/ AskCatalogItems({TypeM}, {NameA}, AskOptions)
    \/ GetCatalogGenres
    \/ GetAllCatalogs
    \/ GenerateManifest({AddonConfig})
    \/ HandleCatalogRequest(PageArgs)

SpecItems == InitItems /\ [][NextItems]_vars

Min(a, b) == IF a < b THEN a ELSE b

\* The metas of the items of m:a that pass the genre filter, in document
\* order: what a query without skip and limit is to return.
Filtered(genre) ==
    LET Kept(item) == genre = JNull \/ NonEmptyEntryEquals(item, genre)
        kept == SelectSeq(ItemsOf(TypeM, NameA), Kept)
    IN [i \in 1..Len(kept) |-> TransformToStremioMeta(kept[i], TypeM)]

\* The slice [skip, skip + count) of a sequence, positions counted from 0.
IsSliceOf(result, full, skip, count) ==
    /\ Len(result) = IF skip >= Len(full) THEN 0 ELSE Min(count, Len(full) - skip)
    /\ \A j \in 1..Len(result) : result[j] = full[skip + j]

HasItemsMA == initialized /\ ~NoItemsFor(TypeM, NameA)

\* C11: for an existing catalog, getCatalogItems with skip >= 0 and limit > 0
\* returns the slice [skip, skip + limit) of the genre-filtered, transformed
\* items in document order (filter first, then skip, then limit); a skip at or
\* beyond the number of filtered items gives the empty sequence and no error.
C11_SliceOfFilteredItems ==
    HasItemsMA =>
        \A genre \in {JNull, Drama, Action} :
            \A full \in {Filtered(genre)} :
                \A skip \in {0, 1, 2, 3, MaxPageItems, MaxPageItems + 1} :
                    \A limit \in {1, 3, MaxPageItems + 1} :
                        \A out \in {GetCatalogItemsOp(Svc, TypeM, NameA,
                                        NestedOptions(JNum(skip), JNum(limit), genre))} :
                            /\ out.threw = NoError
                            /\ IsSliceOf(out.result, full, skip, limit)

\* C11's case: skip 2 and limit 3 on the catalog of ten items returned the
\* items at positions 2, 3 and 4 (the third to the fifth).
C11_Witness ==
    /\ HasItemsMA
    /\ ItemsOf(TypeM, NameA) = PageItems(10)
    /\ lastCall.op = "getCatalogItems"
    /\ lastCall.args[3] = NestedOptions(JNum(2), JNum(3), JNull)
    /\ lastCall.threw = NoError
    /\ Ids(lastCall.result) = <<PageItem(3).id, PageItem(4).id, PageItem(5).id>>

C13_QueriesIdempotent ==
    [][(/\ asked # NoAsk
        /\ asked' = asked
        /\ lastCall'.op = "getCatalogItems"
        /\ lastCall'.args = asked.args)
          => (lastCall'.threw = asked.threw /\ lastCall'.result = asked.result)]_vars

\* C13's case: a query ran after the remembered call, and a call with the
\* remembered arguments returned the same three items again.
C13_Witness ==
    /\ asked # NoAsk
    /\ lastCall.op = "getCatalogItems"
    /\ lastCall.args = asked.args
    /\ lastCall.threw = NoError
    /\ lastCall.result = asked.result
    /\ Len(lastCall.result) = 3

----------------------------------------------------------------------------
(* The surface clients reach: the accessors, the manifest and the catalog    *)
(* handler, on a service that is loaded and reloaded.                        *)

SurfaceFiles ==
    {FileMissing, FileMalformed}
    \cup {FileDoc(cats) : cats \in SeqsUpTo({CatMA, CatSB, CatNoType, JNull}, MaxCatalogs)}

InitSurface == Init /\ serverProc = [pc |-> "none"]

NextSurface ==
    \/ LoadCatalogData(SurfaceFiles)
    \/ GetAllCatalogs
    \/ GetSupportedTypes
    \/ CatalogExists
    \/ GetCatalogGenres
    \/ GetCatalogItems(QueryTypes, QueryIds, IndexOptions)
    \/ GenerateManifest(ManifestConfigs)
    \/ HandleCatalogRequest(ControllerArgs)

SpecSurface == InitSurface /\ [][NextSurface]_vars

ReadOps == QueryOps \cup {"generateManifest", "handleCatalogRequest"}

\* C14: getAllCatalogs, getSupportedTypes, getCatalogGenres, getCatalogItems,
\* catalogExists, generateManifest and handleCatalogRequest leave catalogData
\* (with every catalog's items and their order), catalogMap, initialized and
\* dataPath as they were, whether they return items, nothing, or fail.
C14_QueriesDoNotMutate ==
    [][lastCall'.op \in ReadOps
          => /\ catalogData' = catalogData
             /\ catalogMap' = catalogMap
             /\ initialized' = initialized
             /\ dataPath' = dataPath]_vars

\* C14's case: a catalog request was answered with items from a loaded
\* service, which still holds the document and its full index.
C14_Witness ==
    /\ lastCall.op = "handleCatalogRequest"
    /\ lastCall.threw = NoError
    /\ lastCall.result.metas # <<>>
    /\ initialized
    /\ SnapshotComplete(Svc)
    /\ dataPath = DataPathArg

\* A field an item does not carry: undefined, null or the empty string.
Missing(x) == x \in {JUndef, JNull, JStr(<<>>)}

\* A field of an item that is to be copied: carried, and not 0.
Carried(x) == ~Missing(x) /\ x # JNum(0)

\* The meta of one item, as C15 describes it.
IsMetaOf(meta, item, type) ==
    LET copied == {f \in {"poster", "description", "releaseInfo", "runtime", "imdbRating"} :
                     Carried(item[f])}
    IN /\ DOMAIN meta = {"id", "type", "name"} \cup copied
                           \cup (IF Carried(item.banner) THEN {"background"} ELSE {})
       /\ meta.id = (IF Missing(item.id) THEN JStr(<<>>) ELSE item.id)
       /\ meta.type = type
       /\ meta.name = (IF Missing(item.name) THEN JStr(<<"U", "n", "k", "n", "o", "w", "n">>)
                       ELSE item.name)
       /\ \A f \in copied : meta[f] = item[f]
       /\ Carried(item.banner) => meta.background = item.banner
       /\ \A f \in (DOMAIN meta) \ {"id"} : ~Missing(meta[f])

\* C15: every meta getCatalogItems returns has the item's id ("" if missing),
\* the requested type (not the item's own) and the item's name ("Unknown" if
\* missing); poster, description, releaseInfo, runtime and imdbRating are
\* copied only when truthy, banner is emitted as background, and a field the
\* item lacks is no field of the meta.
C15_MetaTransformation ==
    HasItemsMA =>
        \A options \in {NestedOptions(JUndef, JUndef, JNull), FlatOptions(JUndef, JUndef, JUndef)} :
            LET out == GetCatalogItemsOp(Svc, TypeM, NameA, options)
                items == ItemsOf(TypeM, NameA)
            IN /\ out.threw = NoError
               /\ Len(out.result) = Len(items)
               /\ \A i \in 1..Len(items) : IsMetaOf(out.result[i], items[i], TypeM)

\* C15's case: a query returned the metas of an item with every field and a
\* type of its own, of an item with no field, of one with falsy fields and of
\* one with a banner.
C15_Witness ==
    /\ HasItemsMA
    /\ ItemsOf(TypeM, NameA) = <<ItemFull, ItemBare, ItemFalsy, ItemBanner>>
    /\ lastCall.op = "getCatalogItems"
    /\ lastCall.threw = NoError
    /\ Len(lastCall.result) = 4
    /\ ItemFull.type = TypeS /\ lastCall.result[1].type = TypeM
    /\ DOMAIN lastCall.result[2] = {"id", "type", "name"}
    /\ DOMAIN lastCall.result[3] = {"id", "type", "name"}
    /\ lastCall.result[4].background = ItemBanner.banner

\* C16 (as claimed): handleCatalogRequest resolves to { metas: [...] } and
\* never rejects, whatever its arguments and whatever the state of the
\* service, not yet initialized included.
C16_HandlerNeverRejects ==
    lastCall.op = "handleCatalogRequest" =>
        (lastCall.threw = NoError /\ DOMAIN lastCall.result = {"metas"})

IsLabelOf(label, name) ==
    /\ Len(label) = Len(name)
    /\ \A i \in 1..Len(name) :
          label[i] = IF name[i] = "_" THEN " "
                     ELSE IF i = 1 \/ name[i - 1] = "_" THEN ToUpperChar(name[i])
                     ELSE name[i]

UnknownCatalog ==
    JStr(<<"U", "n", "k", "n", "o", "w", "n", " ", "C", "a", "t", "a", "l", "o", "g">>)

BestMoviesLabel ==
    JStr(<<"B", "e", "s", "t", " ", "M", "o", "v", "i", "e", "s", " ", "O", "f", " ",
           "2", "0", "2", "5">>)

ConfigIncomplete(config) ==
    \/ \E f \in {"addonId", "addonVersion", "addonName", "addonDescription", "idPrefixes"} :
          Missing(config[f])
    \/ ~IsArray(config.idPrefixes)

\* C20 (as claimed): generateManifest throws and returns no manifest when the
\* configuration is incomplete; with a complete configuration and an
\* initialized index it returns a manifest whose resources are ['catalog'] and
\* which has a logo and a background only if they are configured.
C20_ManifestConfigValidated ==
    lastCall.op = "generateManifest" =>
        LET config == lastCall.args[1]
        IN /\ ConfigIncomplete(config) => lastCall.threw # NoError
           /\ (~ConfigIncomplete(config) /\ initialized) =>
                 /\ lastCall.threw = NoError
                 /\ lastCall.result.resources = <<"catalog">>
                 /\ ("logo" \in DOMAIN lastCall.result) = Carried(config.addonLogo)
                 /\ ("background" \in DOMAIN lastCall.result) = Carried(config.addonBackground)

----------------------------------------------------------------------------
(* The serverless function: each request runs from one await to the next,   *)
(* and the requests in flight interleave at their awaits.                   *)

SetRequest(r, slot) == requests' = [requests EXCEPT ![r] = slot]

\* What the initialization finds, for a request that starts it: the file and
\* whether the SDK accepts the manifest. No other request reads either.
InitInputs(req) ==
    IF /\ req.method # "OPTIONS"
       /\ req.route \in {"manifest", "catalog"}
       /\ cachedAddonInterface = JNull
       /\ initializationPromise = NoPromise
    THEN {[file |-> file, sdkOk |-> sdkOk] : file \in ApiFiles, sdkOk \in BOOLEAN}
    ELSE {[file |-> FileMissing, sdkOk |-> TRUE]}

\* A request arrives: CORS headers, the OPTIONS answer, the routes that touch
\* no state, or the call of getAddonInterface() up to the await on it (the
\* initialization itself, when this is the first call, runs inside that call).
ApiArrive(r) ==
    /\ requests[r] = Idle
    /\ \E req \in ApiRequests : \E found \in InitInputs(req) :
          IF req.method = "OPTIONS"
          THEN /\ SetRequest(r, Answered(req, FALSE, Response(200, NoBody)))
               /\ UNCHANGED <<svcVars, cachedAddonInterface, initializationPromise,
                              builds, loadedOnce, asked>>
          ELSE IF req.route \in {"manifest", "catalog"}
          THEN \E g \in {GetAddonInterfaceOp(Svc, cachedAddonInterface, initializationPromise,
                                              DataPathArg, found.file, found.sdkOk)} :
                  /\ SetService(g.svc)
                  /\ cachedAddonInterface' = g.cached
                  /\ initializationPromise' = g.promise
                  /\ builds' = IF cachedAddonInterface = JNull /\ g.cached # JNull
                               THEN [builds EXCEPT !.addon = @ + 1] ELSE builds
                  /\ loadedOnce' = (loadedOnce \/ g.svc.initialized)
                  /\ asked' = NoAsk
                  /\ SetRequest(r, Waiting("awaitInterface", req, Throw(g.threw)))
          ELSE /\ SetRequest(r, Answered(req, FALSE, StaticResponse(req.route)))
               /\ UNCHANGED <<svcVars, cachedAddonInterface, initializationPromise,
                              builds, loadedOnce, asked>>
    /\ UNCHANGED <<serverProc, cachedManifest, lastCall, extVars>>

\* After `await getAddonInterface()`: the catch of the route when the
\* initialization failed; otherwise the catalog route calls
\* handleCatalogRequest and awaits it, and the manifest route calls
\* getManifest, which returns the cached manifest or awaits
\* getAddonInterface() once more.
ApiResumeInterface(r) ==
    /\ requests[r].pc = "awaitInterface"
    /\ LET req == requests[r].req
           failed == requests[r].out.threw # NoError
       IN IF req.route = "catalog"
          THEN IF failed THEN SetRequest(r, Answered(req, TRUE, CatalogRouteFailure))
               ELSE SetRequest(r, Waiting("awaitHandler", req,
                                          HandleCatalogRequestOp(Svc, req.args)))
          ELSE IF failed
               THEN SetRequest(r, Answered(req, TRUE,
                                           Response(500, [error |-> "Failed to load manifest"])))
               ELSE IF cachedManifest = JNull
               THEN SetRequest(r, Waiting("awaitInterfaceAgain", req, Ok(JUndef)))
               ELSE SetRequest(r, Waiting("awaitManifest", req, Ok(cachedManifest)))
    /\ UNCHANGED <<svcVars, serverProc, cachedAddonInterface, cachedManifest,
                   initializationPromise, builds, loadedOnce, lastCall, asked, extVars>>

\* getManifest after its await: generateManifest, and the manifest cached.
ApiGenerateManifest(r) ==
    /\ requests[r].pc = "awaitInterfaceAgain"
    /\ \E m \in {GenerateManifestOp(Svc, AddonConfig)} :
          /\ cachedManifest' = IF m.threw = NoError THEN m.result ELSE cachedManifest
          /\ builds' = IF m.threw = NoError THEN [builds EXCEPT !.manifest = @ + 1] ELSE builds
          /\ SetRequest(r, Waiting("awaitManifest", requests[r].req, m))
    /\ UNCHANGED <<svcVars, serverProc, cachedAddonInterface, initializationPromise,
                   loadedOnce, lastCall, asked, extVars>>

\* After `await handleCatalogRequest(...)` or `await getManifest()`: the
\* answer, or the catch of the route.
ApiRespond(r) ==
    /\ requests[r].pc \in {"awaitHandler", "awaitManifest"}
    /\ LET req == requests[r].req
           out == requests[r].out
       IN IF req.route = "catalog"
          THEN IF out.threw # NoError
               THEN SetRequest(r, Answered(req, TRUE, CatalogRouteFailure))
               ELSE SetRequest(r, Answered(req, FALSE, Response(200, out.result)))
          ELSE IF out.threw # NoError
               THEN SetRequest(r, Answered(req, TRUE,
                                           Response(500, [error |-> "Failed to load manifest"])))
               ELSE SetRequest(r, Answered(req, FALSE, Response(200, out.result)))
    /\ UNCHANGED <<svcVars, serverProc, cachedAddonInterface, cachedManifest,
                   initializationPromise, builds, loadedOnce, lastCall, asked, extVars>>

InitApi == Init /\ serverProc = [pc |-> "none"]

NextApi ==
    \E r \in RequestIds :
        \/ ApiArrive(r)
        \/ ApiResumeInterface(r)
        \/ ApiGenerateManifest(r)
        \/ ApiRespond(r)

SpecApi == InitApi /\ [][NextApi]_vars

\* The answered requests of the catalog route, /catalog/{type}/{id}.json.
CatalogAnswers == {r \in RequestIds : requests[r].pc = "done" /\ requests[r].req.route = "catalog"}

\* The answer is 200 { metas: [...] }, and 200 { metas: [] } after an error.
AnswersMetas(r) ==
    /\ requests[r].res.status = 200
    /\ DOMAIN requests[r].res.body = {"metas"}
    /\ requests[r].failed => requests[r].res.body = Metas(<<>>)

\* C17 (as claimed): every request whose path matches /catalog/{type}/{id}.json
\* is answered with status 200 and a body { metas: [...] }, and with exactly
\* { metas: [] } after an internal error, a failed initialization included.
C17_CatalogRouteAnswersMetas == \A r \in CatalogAnswers : AnswersMetas(r)

\* C17 (amended): every request other than a CORS preflight (OPTIONS) whose
\* path matches /catalog/{type}/{id}.json is answered with status 200 and a
\* body { metas: [...] }, and with exactly { metas: [] } after an internal
\* error, a failed initialization included; it is never answered 4xx or 5xx.
C17_CatalogRouteAnswersMetasButPreflight ==
    \A r \in CatalogAnswers : requests[r].req.method # "OPTIONS" => AnswersMetas(r)

\* C17's case: a catalog request answered 200 { metas: [] } after the
\* initialization failed, and beside it one answered after it had been
\* rejected by the same failed initialization.
C17_Witness ==
    /\ ~initialized
    /\ initializationPromise.state = "rejected"
    /\ \A r \in RequestIds :
          /\ requests[r].pc = "done"
          /\ requests[r].req.route = "catalog"
          /\ requests[r].req.method = "GET"
          /\ requests[r].failed
          /\ requests[r].res = Response(200, Metas(<<>>))

----------------------------------------------------------------------------
(* The deployed server and its catalog file (README, "Volume Mount"): the   *)
(* file is mounted into the container and edited from outside while         *)
(* server.js runs.                                                          *)

WatchFiles == {FileMissing, FileMalformed} \cup {FileDoc(cats) : cats \in SeqsUpTo({CatMA, CatSB}, MaxCatalogs)}

\* The catalog requests the deployed server gets.
WatchArgs == {Args(TypeM, NameA, NoExtra), Args(TypeS, NameB, NoExtra)}

\* The file is rewritten on the host while the server runs. server.js,
\* buildAddon and CatalogService register no watcher and no timer, so no
\* handler of the program runs: the change stays unhandled.
FileChange(files) ==
    /\ serverProc.pc \in {"listening", "serving"}
    /\ catalogFile.changes < MaxChanges
    /\ \E file \in files \ {catalogFile.content} :
          catalogFile' = [content |-> file, changes |-> catalogFile.changes + 1]
    /\ UNCHANGED <<svcVars, serverProc, apiVars, loadedOnce, lastCall, asked, supVars>>

InitWatch ==
    /\ InitAddon
    /\ serverProc = [pc |-> "boot"]
    /\ catalogFile \in {Deployed(file) : file \in WatchFiles}
    /\ NoSupervisor

NextWatch ==
    \/ ServerBuildAddon({catalogFile.content})
    \/ ServeHTTPCallback
    \/ ServerSignal
    \/ FileChange(WatchFiles)
    \/ HandleCatalogRequest(WatchArgs)

\* Node runs the module code of server.js and the serveHTTP callback; the
\* file changes and the queries come from outside and need not happen.
SpecWatch ==
    /\ InitWatch
    /\ [][NextWatch]_vars
    /\ WF_serverProc(ServerBuildAddon({catalogFile.content}))
    /\ WF_serverProc(ServeHTTPCallback)

\* C21: every change notification for the catalog file eventually leads to a
\* reload (a burst within the debounce window to exactly one, once the window
\* has passed with no further notification): a change of the file of the
\* running server does not stay unhandled for ever.
C21_ChangeLeadsToReload ==
    (catalogFile.changes > 0 /\ serverProc.pc = "serving")
        ~> (catalogFile.changes = 0 \/ serverProc.pc = "exited")

----------------------------------------------------------------------------
(* start-with-tunnel.js: the server it spawns is the server.js process of   *)
(* this model; every callback of the script is one action.                  *)

Running == supervisorProc.pc = "running"

\* Everything the script's callbacks leave alone.
addonVars == <<svcVars, apiVars, loadedOnce, lastCall, asked, catalogFile>>

\* The ngrok processes that run.
AliveTunnels == {p \in 1..Len(tunnels) : tunnels[p].alive}

\* startTunnelProcess(): spawn, and tunnelProcess is the new child.
StartTunnelProcess(by) ==
    /\ Len(tunnels) < MaxTunnels
    /\ \E ok \in BOOLEAN : tunnels' = Append(tunnels, SpawnTunnel(ok, by))
    /\ tunnelProcess' = Len(tunnels) + 1

\* The setInterval callback: one more readiness request.
ProbeTick ==
    /\ Running
    /\ checkServer
    /\ probes < MaxProbes
    /\ probes' = probes + 1
    /\ UNCHANGED <<addonVars, serverProc, isLocal, supervisorProc, checkServer, serverReady,
                   tunnelProcess, tunnelRestartCount, tunnels, restartTimers, scheduled>>

\* What a readiness request can come back with.
ProbeAnswers ==
    {ProbeError} \cup (IF serverProc.pc = "serving"
                       THEN {ProbeResponse(200), ProbeResponse(500)} ELSE {})

\* A readiness request ends: its response callback (the first 200 clears the
\* interval and calls startTunnel) or its 'error'.
ProbeAnswer ==
    /\ Running
    /\ probes > 0
    /\ probes' = probes - 1
    /\ \E res \in ProbeAnswers :
          IF res = ProbeResponse(200) /\ ~serverReady
          THEN /\ serverReady' = TRUE
               /\ checkServer' = FALSE
               /\ IF isLocal THEN StartTunnelProcess("probe")
                  ELSE UNCHANGED <<tunnels, tunnelProcess>>
          ELSE UNCHANGED <<serverReady, checkServer, tunnels, tunnelProcess>>
    /\ UNCHANGED <<addonVars, serverProc, isLocal, supervisorProc, tunnelRestartCount,
                   restartTimers, scheduled>>

\* ngrok prints its public URL: the stdout 'data' handler finds it.
TunnelStdout ==
    /\ Running
    /\ \E p \in AliveTunnels :
          /\ tunnelRestartCount' = 0
          /\ scheduled' = NoSchedule
    /\ UNCHANGED <<addonVars, serverProc, isLocal, supervisorProc, checkServer, serverReady,
                   probes, tunnelProcess, tunnels, restartTimers>>

\* An ngrok process ends: with an exit code, or killed by a signal (code
\* null); 'close' follows.
TunnelExits ==
    /\ Running
    /\ \E p \in AliveTunnels, code \in {JNum(0), JNum(1), JNull} :
          tunnels' = [tunnels EXCEPT ![p].alive = FALSE,
                                     ![p].events = <<CloseEvent(code)>>]
    /\ UNCHANGED <<addonVars, serverProc, isLocal, supervisorProc, checkServer, serverReady,
                   probes, tunnelProcess, tunnelRestartCount, restartTimers, scheduled>>

\* The event of process p that is delivered next.
NextEvent(p) == Head(tunnels[p].events)

\* The event is handled; the first one handled of a process that did not
\* exit with code 0 counts its termination as a failure.
Handled(p, abnormal) ==
    tunnels' = [tunnels EXCEPT ![p].events = Tail(@),
                               ![p].counted = @ \/ abnormal]

Failures(p, abnormal) ==
    scheduled.failures + (IF abnormal /\ ~tunnels[p].counted THEN 1 ELSE 0)

\* tunnelRestartCount++, the delay, and setTimeout.
ScheduleRestart(p, delay, abnormal) ==
    /\ tunnelRestartCount' = tunnelRestartCount + 1
    /\ restartTimers' = restartTimers + 1
    /\ scheduled' = [failures |-> Failures(p, abnormal), delay |-> delay,
                     abnormal |-> abnormal]

\* tunnelProcess.on('error')
TunnelError ==
    /\ Running
    /\ \E p \in 1..Len(tunnels) :
          /\ tunnels[p].events # <<>>
          /\ NextEvent(p).name = "error"
          /\ tunnelProcess' = NoProcess
          /\ ScheduleRestart(p, RestartDelay(tunnelRestartCount + 1), TRUE)
          /\ Handled(p, TRUE)
    /\ UNCHANGED <<addonVars, serverProc, isLocal, supervisorProc, checkServer, serverReady,
                   probes>>

\* tunnelProcess.on('close')
TunnelClose ==
    /\ Running
    /\ \E p \in 1..Len(tunnels) :
          /\ tunnels[p].events # <<>>
          /\ NextEvent(p).name = "close"
          /\ tunnelProcess' = NoProcess
          /\ LET code == NextEvent(p).code
             IN IF code # JNull /\ code # JNum(0)
                THEN /\ ScheduleRestart(p, RestartDelay(tunnelRestartCount + 1), TRUE)
                     /\ Handled(p, TRUE)
                ELSE IF code = JNum(0)
                THEN /\ ScheduleRestart(p, INITIAL_RESTART_DELAY, FALSE)
                     /\ Handled(p, FALSE)
                ELSE /\ scheduled' = [failures |-> Failures(p, TRUE), delay |-> 0,
                                      abnormal |-> FALSE]
                     /\ Handled(p, TRUE)
                     /\ UNCHANGED <<tunnelRestartCount, restartTimers>>
    /\ UNCHANGED <<addonVars, serverProc, isLocal, supervisorProc, checkServer, serverReady,
                   probes>>

\* A restart timeout fires: startTunnelProcess() if tunnelProcess is null.
RestartTimer ==
    /\ Running
    /\ restartTimers > 0
    /\ restartTimers' = restartTimers - 1
    /\ IF tunnelProcess = NoProcess THEN StartTunnelProcess("timer")
       ELSE UNCHANGED <<tunnels, tunnelProcess>>
    /\ UNCHANGED <<addonVars, serverProc, isLocal, supervisorProc, checkServer, serverReady,
                   probes, tunnelRestartCount, scheduled>>

\* server.on('close'): the script exits with the server's code.
ServerClose ==
    /\ Running
    /\ serverProc.pc = "exited"
    /\ supervisorProc' = [pc |-> "exited", code |-> serverProc.code]
    /\ checkServer' = FALSE
    /\ UNCHANGED <<addonVars, serverProc, isLocal, serverReady, probes, tunnelProcess,
                   tunnelRestartCount, tunnels, restartTimers, scheduled>>

\* server.on('error'): node could not be spawned; the script exits with 1.
ServerError ==
    /\ Running
    /\ serverProc.pc = "unspawned"
    /\ supervisorProc' = [pc |-> "exited", code |-> 1]
    /\ checkServer' = FALSE
    /\ UNCHANGED <<addonVars, serverProc, isLocal, serverReady, probes, tunnelProcess,
                   tunnelRestartCount, tunnels, restartTimers, scheduled>>

\* SIGTERM or SIGINT to the script: the interval is cleared, the tunnel and
\* the server are killed, exit code 0.
SupervisorSignal ==
    /\ Running
    /\ supervisorProc' = [pc |-> "exited", code |-> 0]
    /\ checkServer' = FALSE
    /\ tunnels' = IF tunnelProcess # NoProcess
                  THEN [tunnels EXCEPT ![tunnelProcess].alive = FALSE]
                  ELSE tunnels
    /\ serverProc' = IF serverProc.pc = "exited" THEN serverProc
                     ELSE [pc |-> "exited", code |-> 0]
    /\ UNCHANGED <<addonVars, isLocal, serverReady, probes, tunnelProcess,
                   tunnelRestartCount, restartTimers, scheduled>>

\* The catalog file of the supervised server.
TunnelFiles == {FileDoc(<<CatMA>>), FileMissing}

\* The module code of the script: the server is spawned, and in local mode
\* the readiness interval is set.
InitTunnel ==
    /\ InitAddon
    /\ serverProc \in {[pc |-> "boot"], [pc |-> "unspawned"]}
    /\ catalogFile \in {Deployed(file) : file \in TunnelFiles}
    /\ isLocal \in BOOLEAN
    /\ supervisorProc = [pc |-> "running"]
    /\ checkServer = isLocal
    /\ serverReady = FALSE
    /\ probes = 0
    /\ tunnelProcess = NoProcess
    /\ tunnelRestartCount = 0
    /\ tunnels = <<>>
    /\ restartTimers = 0
    /\ scheduled = NoSchedule

NextTunnel ==
    \/ ServerBuildAddon({catalogFile.content})
    \/ ServeHTTPCallback
    \/ ServerSignal
    \/ ProbeTick
    \/ ProbeAnswer
    \/ TunnelStdout
    \/ TunnelExits
    \/ TunnelError
    \/ TunnelClose
    \/ RestartTimer
    \/ ServerClose
    \/ ServerError
    \/ SupervisorSignal

SpecTunnel == InitTunnel /\ [][NextTunnel]_vars

\* Every ngrok process spawned has ended and the handlers of its events have
\* run: from here on only a pending restart timeout can start a tunnel.
TunnelDown ==
    /\ Running
    /\ tunnels # <<>>
    /\ \A p \in 1..Len(tunnels) : ~tunnels[p].alive /\ tunnels[p].events = <<>>

\* C22: in local mode the tunnel is reconnected: whenever the ngrok process
\* has terminated after having been started, however it did (exit code other
\* than 0, exit code 0, spawn error, signal), a new one is eventually started
\* while the script runs, so once the tunnel is down a restart is pending; in
\* production mode no tunnel process is ever started.
C22_TunnelReconnected ==
    /\ ~isLocal => tunnels = <<>>
    /\ TunnelDown => restartTimers > 0

\* C25: after the k-th consecutive abnormal termination of the tunnel (k >= 1)
\* the reconnect delay is min(2000 * 2^(k-1), 30000) ms, never below 2 s nor
\* above 30 s; the counter is 0 again once a tunnel URL has been reported.
C25_ReconnectBackoff ==
    /\ scheduled.abnormal =>
          /\ scheduled.failures >= 1
          /\ scheduled.delay = MathMin(2000 * 2 ^ (scheduled.failures - 1), 30000)
          /\ scheduled.delay >= 2000
          /\ scheduled.delay <= 30000
    /\ scheduled = NoSchedule => tunnelRestartCount = 0

\* C30: at most one tunnel process is alive at any time, whatever the order
\* of the 'error' and 'close' events and of the restart timeouts, and the
\* tunnel is started for the first time at most once, only after the server
\* has answered the readiness request with status 200.
C30_AtMostOneTunnel ==
    /\ Cardinality(AliveTunnels) <= 1
    /\ Cardinality({p \in 1..Len(tunnels) : tunnels[p].by = "probe"}) <= 1
    /\ tunnels # <<>> => serverReady

----------------------------------------------------------------------------
(* The caches of the serverless function, checked under SpecApi.            *)

\* C23: serverless initialization is single-flight and cached: for every
\* interleaving of concurrent requests buildAddon completes successfully at
\* most once per process, and once cachedAddonInterface or cachedManifest is
\* set it is never rebuilt or replaced (each is built and assigned at most
\* once).
C23_SingleFlightInitialization ==
    /\ builds.addon <= 1
    /\ builds.manifest <= 1

\* C24: initialization failure is retryable: when getAddonInterface has
\* failed, the initialization promise is reset, so that the next call starts
\* a fresh attempt and no past failure is replayed to a later request: while
\* no interface is cached, no settled promise is kept.
C24_FailedInitializationRetried ==
    cachedAddonInterface = JNull => initializationPromise = NoPromise

----------------------------------------------------------------------------
(* The composite key "type:name": catalogs whose type or name holds a ':'.  *)

TypeA == JStr(<<"a">>)

TypeAB == JStr(<<"a", ":", "b">>)

NameC == JStr(<<"c">>)

NameBC == JStr(<<"b", ":", "c">>)

KeyCatalogs ==
    {Catalog(TypeAB, NameC, JArr(<<Item1>>)), Catalog(TypeA, NameBC, JArr(<<Item2>>)),
     Catalog(TypeA, NameC, JArr(<<Item1, Item2>>)), CatMA}

KeyFiles == {FileDoc(cats) : cats \in SeqsUpTo(KeyCatalogs, MaxCatalogs)}

KeyTypes == {TypeA, TypeAB, TypeM}

KeyIds == {NameC, NameBC, NameA}

\* catalogExists(type, catalogId) for the types and ids given.
AskCatalogExists(types, ids) ==
    /\ \E type \in types, id \in ids :
          Query("catalogExists", <<type, id>>, CatalogExistsOp(Svc, type, id))
    /\ UNCHANGED asked

InitKeys == Init /\ serverProc = [pc |-> "none"]

NextKeys ==
    \/ LoadCatalogData(KeyFiles)
    \/ GetCatalogItems(KeyTypes, KeyIds, {NestedOptions(JUndef, JUndef, JNull)})
    \/ AskCatalogExists(KeyTypes, KeyIds)

SpecKeys == InitKeys /\ [][NextKeys]_vars

\* The catalogs of the loaded document with this type and this name.
Named(type, id) ==
    {i \in 1..Len(Catalogs(catalogData)) :
        /\ Catalogs(catalogData)[i].catalog_type = type
        /\ Catalogs(catalogData)[i].catalog_name = id}

\* C26: whenever getCatalogItems(type, catalogId) or catalogExists(type,
\* catalogId) resolves to a catalog, the catalog's catalog_type is type and
\* its catalog_name is catalogId (what is served are the items of a catalog
\* of that type and name); and two catalogs with different (catalog_type,
\* catalog_name) pairs never share one catalogMap entry.
C26_CompositeKeySound ==
    /\ (lastCall.op = "catalogExists" /\ lastCall.result = TRUE) =>
          Named(lastCall.args[1], lastCall.args[2]) # {}
    /\ (lastCall.op = "getCatalogItems" /\ lastCall.threw = NoError /\ lastCall.result # <<>>) =>
          \E i \in Named(lastCall.args[1], lastCall.args[2]) :
              Ids(lastCall.result) = Ids(Catalogs(catalogData)[i].catalog_items.v)
    /\ initialized =>
          \A i, j \in 1..Len(Catalogs(catalogData)) :
              LET a == Catalogs(catalogData)[i]
                  b == Catalogs(catalogData)[j]
              IN Key(a.catalog_type, a.catalog_name) = Key(b.catalog_type, b.catalog_name)
                    => (a.catalog_type = b.catalog_type /\ a.catalog_name = b.catalog_name)

----------------------------------------------------------------------------
(* The manifest against the index: documents with a catalog that has no     *)
(* type and with two catalogs of one type and name.                         *)

AgreeFiles == {FileDoc(cats) : cats \in SeqsUpTo({CatMA, CatMA2, CatSB, CatNoType}, MaxCatalogs)}

InitAgree == Init /\ serverProc = [pc |-> "none"]

NextAgree ==
    \/ LoadCatalogData(AgreeFiles)
    \/ GenerateManifest({AddonConfig})
    \/ AskCatalogExists(QueryTypes, QueryIds)
    \/ GetCatalogItems(QueryTypes, QueryIds, {NestedOptions(JUndef, JUndef, JNull)})

SpecAgree == InitAgree /\ [][NextAgree]_vars

\* The items of a document catalog: none when it has no catalog_items array.
CatalogItems(catalog) ==
    IF IsArray(catalog.catalog_items) THEN catalog.catalog_items.v ELSE <<>>

\* C27: for every loaded document, each catalog entry the manifest advertises
\* with (type, id) is resolvable: catalogExists(type, id) is true and
\* getCatalogItems(type, id) serves the items of the very document catalog
\* the entry was projected from, also when the document holds a catalog with
\* a missing field or two catalogs of the same type and name.
C27_ManifestAgreesWithIndex ==
    (lastCall.op = "generateManifest" /\ lastCall.threw = NoError) =>
        \A i \in 1..Len(lastCall.result.catalogs) :
            LET entry == lastCall.result.catalogs[i]
                served == GetCatalogItemsOp(Svc, entry.type, entry.id,
                                            NestedOptions(JUndef, JUndef, JNull))
            IN /\ CatalogExistsOp(Svc, entry.type, entry.id).result
               /\ served.threw = NoError
               /\ Ids(served.result) = Ids(CatalogItems(Catalogs(catalogData)[i]))

----------------------------------------------------------------------------
(* The two shapes of the options of getCatalogItems, under SpecQuery.       *)

\* C28: both option shapes of getCatalogItems filter alike: for every genre
\* g, skip s and limit l, getCatalogItems(type, id, { skip: s, limit: l,
\* genre: g }) returns what getCatalogItems(type, id, { pagination: { skip: s,
\* limit: l }, genre: g }) returns; a genre given in the options object is
\* never silently ignored.
C28_OptionShapesAgree ==
    (lastCall.op = "getCatalogItems" /\ lastCall.args[3].pagination = JUndef) =>
        LET flat == lastCall.args[3]
            nested == GetCatalogItemsOp(Svc, lastCall.args[1], lastCall.args[2],
                                        NestedOptions(flat.skip, flat.limit, flat.genre))
        IN /\ lastCall.threw = nested.threw
           /\ lastCall.result = nested.result

----------------------------------------------------------------------------
(* Page after page of one catalog.                                          *)

\* The page sizes asked for.
PageSizes == {1, 3, MaxPageItems}

PageFiles == {FileDoc(<<Catalog(TypeM, NameA, JArr(PageItems(k)))>>) : k \in 0..MaxPageItems}

\* Page k of size L: skip = k * L, limit = L.
PageOption(k, L, genre) == NestedOptions(JNum(k * L), JNum(L), genre)

TileOptions ==
    {PageOption(k, L, genre) :
        k \in 0..MaxPageItems + 1, L \in PageSizes, genre \in {JNull, Drama}}
    \cup {NestedOptions(JUndef, JUndef, genre) : genre \in {JNull, Drama}}

InitPages == Init /\ serverProc = [pc |-> "none"]

NextPages ==
    \/ LoadCatalogData(PageFiles)
    \/ GetCatalogItems({TypeM}, {NameA}, TileOptions)

SpecPages == InitPages /\ [][NextPages]_vars

\* What getCatalogItems returns for the catalog m:a with the current index.
Unpaged(genre) ==
    GetCatalogItemsOp(Svc, TypeM, NameA, NestedOptions(JUndef, JUndef, genre)).result

PageOf(k, L, genre) == GetCatalogItemsOp(Svc, TypeM, NameA, PageOption(k, L, genre)).result

\* Pages 0..k, one after the other.
RECURSIVE PagesUpTo(_, _, _)
PagesUpTo(k, L, genre) ==
    IF k < 0 THEN <<>> ELSE PagesUpTo(k - 1, L, genre) \o PageOf(k, L, genre)

\* C29: pages tile the result: for a fixed catalog, genre and page size L > 0
\* on an unchanged index, the results for skip = 0, L, 2L, ... and limit = L,
\* one after the other, are the unpaginated result exactly (no item twice,
\* none left out), every page but possibly the last has exactly L items, and
\* a page is empty exactly when its skip has reached the filtered length.
C29_PagesTile ==
    initialized =>
        \A genre \in {JNull, Drama} : \A full \in {Unpaged(genre)} : \A L \in PageSizes :
            LET last == Len(full) \div L
            IN /\ PagesUpTo(last, L, genre) = full
               /\ \A k \in 0..last + 1 : \A page \in {PageOf(k, L, genre)} :
                     /\ (k + 1) * L <= Len(full) => Len(page) = L
                     /\ (page = <<>>) = (k * L >= Len(full))

\* C29's case: the second page of three items of the longest catalog has
\* been asked for, and a third and a last, shorter one are left.
C29_Witness ==
    /\ initialized
    /\ Len(Unpaged(JNull)) = MaxPageItems
    /\ lastCall.op = "getCatalogItems"
    /\ lastCall.args[3] = PageOption(1, 3, JNull)
    /\ Ids(lastCall.result) = Ids(SubSeq(Unpaged(JNull), 4, 6))
    /\ Len(PageOf(MaxPageItems \div 3, 3, JNull)) = MaxPageItems % 3

====
